---- MODULE Spec2Model ----
(***************************************************************************)
(* Acquisition / caching pipeline of ai-hedge-fund:                        *)
(*   src/src/data/acquisition.py      acquire_prices, acquire_financial_   *)
(*                                    metrics, acquire_company_news,       *)
(*                                    acquire_insider_trades,              *)
(*                                    acquire_all_data                     *)
(*   src/src/acquire_data.py          the acquisition CLI                  *)
(*   src/acquire_sp500_full_history.py   the batch driver                  *)
(*   src/acquire_sp500_historical.py     the per-ticker subprocess driver  *)
(*   src/app/backend/database/...     the tables and the session factory   *)
(***************************************************************************)
EXTENDS Integers, Sequences, FiniteSets, TLC

VARIABLES
    db,             \* the Store: one sequence of committed rows per table
    api_provider,   \* what get_api_provider() returns (environment configuration)
    volume_column,  \* the SQL type of historical_prices.volume in the database
    sessions,       \* acquire_* invocations running side by side, one per process:
                    \* where each is and what its database session holds uncommitted
    last,           \* the acquire_* call that has just ended, until its caller goes on:
                    \* its arguments, the provider's answer, the table before, the outcome
    calls,          \* number of acquire_* calls made so far
    aad,            \* the calls of acquire_all_data made so far, oldest first
    cli,            \* the last run of the acquisition CLI
    sp500_csv,      \* data/sp500.csv: whether it exists and its ticker column
    progress_file,  \* data/acquisition_progress.txt: its lines, oldest first
    failed_file,    \* data/failed_tickers.txt: whether it exists and its lines
    market,         \* how the provider answers for each symbol during a driver run
    drv,            \* the driver process: its script, position and local variables
    runs            \* number of driver runs started so far

callVars == <<last, calls, aad, cli>>
driverVars == <<sp500_csv, progress_file, failed_file, market, drv, runs>>
vars == <<db, api_provider, volume_column, sessions, last, calls, aad, cli,
          sp500_csv, progress_file, failed_file, market, drv, runs>>

----------------------------------------------------------------------------
(* Bounds and input domains *)

MaxFetch == 2       \* longest sequence a provider call returns
MaxCalls == 2       \* acquire_* calls per behaviour of the Store specifications

Tickers == {"A", "B"}
Dates == {1, 2}                 \* calendar days, as day numbers
NoDate == 0                     \* Python None for an absent transaction_date
Vals == {1, 2}                  \* values of the non-key fields
ReportPeriods == {1}
Periods == {"ttm"}
Names == {"n"}
Volumes == {1000}                \* thousands of shares
Titles == {"t"}
TransactionDates == {NoDate}
Urls == {"u1", "u2"}
Providers == {"yahoo_finance", "financial_datasets"}

Kinds == {"prices", "metrics", "news", "insider_trades"}

(* Records as the provider hands them over (src/data/models.py objects). *)
(* close stands for open, high, low and close, ratios for the ratio fields,   *)
(* title for title, author, source, date and sentiment, transaction_value   *)
(* for the non-key fields of a trade: the code copies each group alike.     *)
(* A record carries the ticker the provider stamped on it, which the code   *)
(* reads as record.ticker; nothing makes it equal the requested ticker.     *)
PriceRecs == [time : Dates, close : Vals, volume : Volumes]
MetricsRecs == [ticker : Tickers, report_period : ReportPeriods, period : Periods,
                ratios : Vals]
NewsRecs == [ticker : Tickers, url : Urls, title : Titles]
TradeRecs == [ticker : Tickers, filing_date : ReportPeriods, name : Names,
              transaction_date : TransactionDates, transaction_value : Vals]

RecsOf(kind) ==
    CASE kind = "prices" -> PriceRecs
      [] kind = "metrics" -> MetricsRecs
      [] kind = "news" -> NewsRecs
      [] kind = "insider_trades" -> TradeRecs

SeqsUpTo(S, n) == UNION {[1..k -> S] : k \in 0..n}

(* A provider call raises (ok = FALSE) or returns a possibly empty sequence. *)
Responses(kind) ==
    {[ok |-> FALSE, recs |-> <<>>]} \cup
    {[ok |-> TRUE, recs |-> s] : s \in SeqsUpTo(RecsOf(kind), MaxFetch)}

----------------------------------------------------------------------------
(* The tables (app/backend/database/models.py) *)

\* __tablename__ of the four models
Tables == {"historical_prices", "financial_metrics", "company_news", "insider_trades"}

TableOf(kind) ==
    CASE kind = "prices" -> "historical_prices"
      [] kind = "metrics" -> "financial_metrics"
      [] kind = "news" -> "company_news"
      [] kind = "insider_trades" -> "insider_trades"

\* The columns of a unique index of the table, as a tuple of the row's values;
\* insider_trades has two indexes and neither is unique.
HasUniqueIndex(kind) == kind \in {"prices", "metrics", "news"}

UniqueKey(kind, row) ==
    CASE kind = "prices" -> <<row.ticker, row.date>>
      [] kind = "metrics" -> <<row.ticker, row.report_period, row.period>>
      [] kind = "news" -> <<row.url>>
      [] kind = "insider_trades" -> <<>>

\* The database accepts a flush when no two rows collide on a unique index.
IndexesHold(kind, rows) ==
    HasUniqueIndex(kind) =>
        \A i, j \in 1..Len(rows) :
            UniqueKey(kind, rows[i]) = UniqueKey(kind, rows[j]) => i = j

\* The SQL types historical_prices.volume can have: INTEGER where the tables
\* were created from the models (init_db, revision 4a7b8c9d0e3f), BIGINT where
\* revision b0d465e2eef3 has been applied.
ColumnTypes == {"INTEGER", "BIGINT"}

\* volume = Column(Integer, nullable=False)
DeclaredVolumeColumn == "INTEGER"

\* PostgreSQL accepts a value for an integer column only inside the type's
\* range ("integer out of range" otherwise). Volumes are counted in thousands
\* of shares: a 32-bit column holds -2147483648..2147483647 shares, that is
\* -2147483..2147483 thousands; every volume of the model is inside the
\* 64-bit range.
FitsColumn(type, v) ==
    IF type = "INTEGER" THEN v >= -2147483 /\ v <= 2147483
    ELSE TRUE

ColumnsHold(kind, rows) ==
    kind = "prices" =>
        \A i \in 1..Len(rows) : FitsColumn(volume_column, rows[i].volume)

----------------------------------------------------------------------------
(* The reconciliation loops of acquisition.py *)

\* The filter of the per-record existence query.
Matches(kind, row, ticker, rec) ==
    CASE kind = "prices" -> row.ticker = ticker /\ row.date = rec.time
      [] kind = "metrics" ->
            /\ row.ticker = ticker
            /\ row.report_period = rec.report_period
            /\ row.period = rec.period
      [] kind = "news" -> row.url = rec.url
      [] kind = "insider_trades" ->
            /\ row.ticker = ticker
            /\ row.filing_date = rec.filing_date
            /\ row.name = rec.name
            /\ row.transaction_date = rec.transaction_date

\* query(...).first(): index of the first matching row, 0 for None.  The session
\* is made with autoflush=False, so objects added in this session are not seen.
First(kind, rows, ticker, rec) ==
    LET hits == {i \in 1..Len(rows) : Matches(kind, rows[i], ticker, rec)}
    IN  IF hits = {} THEN 0 ELSE CHOOSE i \in hits : \A j \in hits : i <= j

\* An update that copies the record's ticker onto the row for every kind that
\* carries one, as the news branch does.
UpdateRow_CopiesTicker(kind, row, rec, data_source) ==
    CASE kind = "prices" ->
            [row EXCEPT !.close = rec.close, !.volume = rec.volume,
                        !.data_source = data_source]
      [] kind = "metrics" ->
            [row EXCEPT !.ticker = rec.ticker, !.ratios = rec.ratios,
                        !.data_source = data_source]
      [] kind = "news" ->
            [row EXCEPT !.ticker = rec.ticker, !.title = rec.title,
                        !.data_source = data_source]
      [] kind = "insider_trades" ->
            [row EXCEPT !.ticker = rec.ticker,
                        !.transaction_value = rec.transaction_value,
                        !.data_source = data_source]

\* An update branch that leaves the stamp of the earlier write.
UpdateRow_KeepsSource(kind, row, rec, data_source) ==
    CASE kind = "prices" ->
            [row EXCEPT !.close = rec.close, !.volume = rec.volume]
      [] kind = "metrics" ->
            [row EXCEPT !.ratios = rec.ratios]
      [] kind = "news" ->
            [row EXCEPT !.ticker = rec.ticker, !.title = rec.title]
      [] kind = "insider_trades" ->
            [row EXCEPT !.transaction_value = rec.transaction_value]

\* The "Update existing record" branch.
UpdateRow(kind, row, rec, data_source) ==
    CASE kind = "prices" ->
            [row EXCEPT !.close = rec.close, !.volume = rec.volume,
                        !.data_source = data_source]
      [] kind = "metrics" ->
            [row EXCEPT !.ratios = rec.ratios, !.data_source = data_source]
      [] kind = "news" ->
            [row EXCEPT !.ticker = rec.ticker, !.title = rec.title,
                        !.data_source = data_source]
      [] kind = "insider_trades" ->
            [row EXCEPT !.transaction_value = rec.transaction_value,
                        !.data_source = data_source]

\* The "Create new record" branch.
NewRow(kind, ticker, rec, data_source) ==
    CASE kind = "prices" ->
            [ticker |-> ticker, date |-> rec.time, close |-> rec.close,
             volume |-> rec.volume, data_source |-> data_source]
      [] kind = "metrics" ->
            [ticker |-> rec.ticker, report_period |-> rec.report_period, period |-> rec.period,
             ratios |-> rec.ratios, data_source |-> data_source]
      [] kind = "news" ->
            [ticker |-> rec.ticker, title |-> rec.title, url |-> rec.url,
             data_source |-> data_source]
      [] kind = "insider_trades" ->
            [ticker |-> rec.ticker, name |-> rec.name, filing_date |-> rec.filing_date,
             transaction_date |-> rec.transaction_date,
             transaction_value |-> rec.transaction_value,
             data_source |-> data_source]

\* An iteration that applies a record to the row it finds whatever the flag.
PersistOne_AlwaysUpdates(kind, s, ticker, force_refresh, rec, data_source) ==
    LET i == First(kind, s.rows, ticker, rec)
    IN  IF i > 0
        THEN [s EXCEPT !.rows[i] = UpdateRow(kind, @, rec, data_source),
                       !.saved = @ + 1]
        ELSE [s EXCEPT !.added = Append(@, NewRow(kind, ticker, rec, data_source)),
                       !.saved = @ + 1]

\* An iteration that counts a skipped record as saved.
PersistOne_CountsSkipped(kind, s, ticker, force_refresh, rec, data_source) ==
    LET i == First(kind, s.rows, ticker, rec)
    IN  IF i > 0 /\ ~force_refresh THEN [s EXCEPT !.saved = @ + 1]
        ELSE IF i > 0
        THEN [s EXCEPT !.rows[i] = UpdateRow(kind, @, rec, data_source),
                       !.saved = @ + 1]
        ELSE [s EXCEPT !.added = Append(@, NewRow(kind, ticker, rec, data_source)),
                       !.saved = @ + 1]

\* One iteration of "for record in fetched": the session s holds the persistent
\* rows (with this session's updates), the pending added rows and saved_count.
PersistOne(kind, s, ticker, force_refresh, rec, data_source) ==
    LET i == First(kind, s.rows, ticker, rec)
    IN  IF i > 0 /\ ~force_refresh THEN s
        ELSE IF i > 0
        THEN [s EXCEPT !.rows[i] = UpdateRow(kind, @, rec, data_source),
                       !.saved = @ + 1]
        ELSE [s EXCEPT !.added = Append(@, NewRow(kind, ticker, rec, data_source)),
                       !.saved = @ + 1]

RECURSIVE PersistLoop(_, _, _, _, _, _)
PersistLoop(kind, s, ticker, force_refresh, recs, data_source) ==
    IF recs = <<>> THEN s
    ELSE PersistLoop(kind,
                     PersistOne(kind, s, ticker, force_refresh, Head(recs), data_source),
                     ticker, force_refresh, Tail(recs), data_source)

\* What an acquire_* call hands back: the table afterwards, the returned count,
\* whether it raised, whether the provider was called.
Outcome(rows, ret, err, fetched) ==
    [rows |-> rows, ret |-> ret, err |-> err, fetched |-> fetched]

\* A commit whose failure leaves the table empty instead of rolled back.
Commit_FailureEmptiesTable(kind, rows, s) ==
    LET after == s.rows \o s.added
    IN  IF IndexesHold(kind, after) /\ ColumnsHold(kind, after)
        THEN Outcome(after, s.saved, FALSE, TRUE)
        ELSE Outcome(<<>>, 0, TRUE, TRUE)

\* A commit that raises on a violation and leaves the flushed rows in the table.
Commit_FailureKeepsWrites(kind, rows, s) ==
    LET after == s.rows \o s.added
    IN  IF IndexesHold(kind, after) /\ ColumnsHold(kind, after)
        THEN Outcome(after, s.saved, FALSE, TRUE)
        ELSE Outcome(after, 0, TRUE, TRUE)

\* db.commit(): the flush writes updates and inserts; a unique-index violation
\* or a value outside its column's range raises, the except branch rolls back
\* and re-raises.
Commit(kind, rows, s) ==
    LET after == s.rows \o s.added
    IN  IF IndexesHold(kind, after) /\ ColumnsHold(kind, after)
        THEN Outcome(after, s.saved, FALSE, TRUE)
        ELSE Outcome(rows, 0, TRUE, TRUE)

\* The part the four acquire_* functions share, from the provider call on.
FetchAndPersist(kind, rows, ticker, force_refresh, resp, data_source) ==
    IF ~resp.ok THEN Outcome(rows, 0, TRUE, TRUE)
    ELSE IF resp.recs = <<>> THEN Outcome(rows, 0, FALSE, TRUE)
    ELSE Commit(kind, rows,
                PersistLoop(kind, [rows |-> rows, added |-> <<>>, saved |-> 0],
                            ticker, force_refresh, resp.recs, data_source))

\* A count that is positive only when every date of the range is stored.
ExistingCount_NeedsEveryDate(rows, ticker, start_date, end_date) ==
    IF \A d \in start_date..end_date :
          \E i \in 1..Len(rows) : rows[i].ticker = ticker /\ rows[i].date = d
    THEN end_date - start_date + 1
    ELSE 0

\* existing_count of acquire_prices
ExistingCount(rows, ticker, start_date, end_date) ==
    Cardinality({i \in 1..Len(rows) :
        /\ rows[i].ticker = ticker
        /\ rows[i].date >= start_date
        /\ rows[i].date <= end_date})

acquire_prices(rows, ticker, start_date, end_date, force_refresh, resp, data_source) ==
    IF ~force_refresh /\ ExistingCount(rows, ticker, start_date, end_date) > 0
    THEN Outcome(rows, 0, FALSE, FALSE)
    ELSE FetchAndPersist("prices", rows, ticker, force_refresh, resp, data_source)

acquire_financial_metrics(rows, ticker, force_refresh, resp, data_source) ==
    FetchAndPersist("metrics", rows, ticker, force_refresh, resp, data_source)

acquire_company_news(rows, ticker, force_refresh, resp, data_source) ==
    FetchAndPersist("news", rows, ticker, force_refresh, resp, data_source)

acquire_insider_trades(rows, ticker, force_refresh, resp, data_source) ==
    FetchAndPersist("insider_trades", rows, ticker, force_refresh, resp, data_source)

----------------------------------------------------------------------------
(* Direct calls of the acquire_* functions *)

NoCall ==
    [op |-> "none", ticker |-> "A", start_date |-> 1, end_date |-> 1,
     force_refresh |-> FALSE, resp |-> [ok |-> TRUE, recs |-> <<>>],
     pre |-> <<>>, ret |-> 0, err |-> FALSE, fetched |-> FALSE]

EmptyDb == [t \in Tables |-> <<>>]

NoCli == [ran |-> FALSE]

\* The processes that can run an acquisition at the same time.
Procs == {1, 2}

\* An invocation: where it is ("idle" before it starts, "checked" once its
\* loop has run and its writes wait for the commit, "done" or "failed" at its
\* end), what it acquires, the rows its session holds modified (by position
\* in the table) and pending, and the count it returns.
Session(pc, kind, ticker, updated, added, ret) ==
    [pc |-> pc, kind |-> kind, ticker |-> ticker, updated |-> updated,
     added |-> added, ret |-> ret]

NoSession == Session("idle", "none", "none", <<>>, <<>>, 0)

NoSessions == [p \in Procs |-> NoSession]

NoCsv == [exists |-> FALSE, tickers |-> <<>>]

NoFile == [exists |-> FALSE, lines |-> <<>>]

NoAttempt == [tickers |-> <<>>, how |-> "none", returncode |-> 0, clean |-> {}]

\* No driver has been started.
NoRun ==
    [script |-> "none", pc |-> "idle", tickers |-> <<>>, completed_tickers |-> {},
     loaded |-> {}, remaining |-> <<>>, at |-> 0, successful_count |-> 0,
     failed_count |-> 0, failed_tickers |-> <<>>, attempted |-> <<>>,
     attempt |-> NoAttempt, sleeps |-> 0, exit |-> -1, after_kill |-> FALSE]

\* No driver takes part in the Store, rerun and CLI specifications.
NoDrivers ==
    /\ sp500_csv = NoCsv
    /\ progress_file = <<>>
    /\ failed_file = NoFile
    /\ market = [t \in {} |-> "one"]
    /\ drv = NoRun
    /\ runs = 0

StoreInit ==
    /\ db = EmptyDb
    /\ api_provider \in Providers
    /\ volume_column = DeclaredVolumeColumn
    /\ sessions = NoSessions
    /\ last = NoCall
    /\ calls = 0
    /\ aad = <<>>
    /\ cli = NoCli
    /\ NoDrivers

Record(kind, ticker, start_date, end_date, force_refresh, resp, out) ==
    /\ db' = [db EXCEPT ![TableOf(kind)] = out.rows]
    /\ last' = [op |-> kind, ticker |-> ticker, start_date |-> start_date,
                end_date |-> end_date, force_refresh |-> force_refresh,
                resp |-> resp,
                pre |-> db[TableOf(kind)], ret |-> out.ret, err |-> out.err,
                fetched |-> out.fetched]
    /\ calls' = calls + 1
    /\ UNCHANGED driverVars
    /\ UNCHANGED <<api_provider, volume_column, sessions, aad, cli>>

CallAcquirePrices ==
    /\ calls < MaxCalls
    /\ last.op = "none"
    /\ \E ticker \in Tickers, start_date \in Dates, end_date \in Dates,
          force_refresh \in BOOLEAN, resp \in Responses("prices") :
        /\ start_date <= end_date
        /\ Record("prices", ticker, start_date, end_date, force_refresh, resp,
                  acquire_prices(db.historical_prices, ticker, start_date, end_date,
                                 force_refresh, resp, api_provider))

CallAcquireFinancialMetrics ==
    /\ calls < MaxCalls
    /\ last.op = "none"
    /\ \E ticker \in Tickers, force_refresh \in BOOLEAN,
          resp \in Responses("metrics") :
        Record("metrics", ticker, 1, 1, force_refresh, resp,
               acquire_financial_metrics(db.financial_metrics, ticker,
                                         force_refresh, resp, api_provider))

CallAcquireCompanyNews ==
    /\ calls < MaxCalls
    /\ last.op = "none"
    /\ \E ticker \in Tickers, force_refresh \in BOOLEAN,
          resp \in Responses("news") :
        Record("news", ticker, 1, 1, force_refresh, resp,
               acquire_company_news(db.company_news, ticker,
                                    force_refresh, resp, api_provider))

CallAcquireInsiderTrades ==
    /\ calls < MaxCalls
    /\ last.op = "none"
    /\ \E ticker \in Tickers, force_refresh \in BOOLEAN,
          resp \in Responses("insider_trades") :
        Record("insider_trades", ticker, 1, 1, force_refresh, resp,
               acquire_insider_trades(db.insider_trades, ticker,
                                      force_refresh, resp, api_provider))

\* The caller has taken the returned count (or the exception) and goes on.
ReturnToCaller ==
    /\ last.op # "none"
    /\ last' = NoCall
    /\ UNCHANGED driverVars
    /\ UNCHANGED <<db, api_provider, volume_column, sessions, calls, aad, cli>>

StoreNext ==
    \/ CallAcquirePrices
    \/ CallAcquireFinancialMetrics
    \/ CallAcquireCompanyNews
    \/ CallAcquireInsiderTrades
    \/ ReturnToCaller

SpecStore == StoreInit /\ [][StoreNext]_vars

\* Each acquire_* function opens its own session and reads and writes its own
\* table only; these specifications exercise one function at a time.
SpecPrices == StoreInit /\ [][CallAcquirePrices \/ ReturnToCaller]_vars
SpecMetrics == StoreInit /\ [][CallAcquireFinancialMetrics \/ ReturnToCaller]_vars
SpecNews == StoreInit /\ [][CallAcquireCompanyNews \/ ReturnToCaller]_vars
SpecTrades == StoreInit /\ [][CallAcquireInsiderTrades \/ ReturnToCaller]_vars

\* Price bars whose volume is around the 32-bit limit (in thousands of shares:
\* an everyday volume, the largest a 32-bit column holds, the smallest it does
\* not), acquired into a database of either column type.
LargeVolumes == {1000, 2147483, 2147484}

LargeVolumeRecs == [time : Dates, close : {1}, volume : LargeVolumes]

LargeVolumeResponses ==
    {[ok |-> FALSE, recs |-> <<>>]} \cup
    {[ok |-> TRUE, recs |-> s] : s \in SeqsUpTo(LargeVolumeRecs, MaxFetch)}

VolumeInit ==
    /\ db = EmptyDb
    /\ api_provider \in Providers
    /\ volume_column \in ColumnTypes
    /\ sessions = NoSessions
    /\ last = NoCall
    /\ calls = 0
    /\ aad = <<>>
    /\ cli = NoCli
    /\ NoDrivers

CallAcquirePricesLargeVolume ==
    /\ calls < MaxCalls
    /\ last.op = "none"
    /\ \E ticker \in Tickers, start_date \in Dates, end_date \in Dates,
          force_refresh \in BOOLEAN, resp \in LargeVolumeResponses :
        /\ start_date <= end_date
        /\ Record("prices", ticker, start_date, end_date, force_refresh, resp,
                  acquire_prices(db.historical_prices, ticker, start_date, end_date,
                                 force_refresh, resp, api_provider))

SpecVolume == VolumeInit /\ [][CallAcquirePricesLargeVolume \/ ReturnToCaller]_vars

(* Two invocations side by side (two driver processes, or a driver and the *)
(* CLI): each has its own session, so its existence checks read what is    *)
(* committed and its writes reach the table at its own db.commit().        *)

\* The fields by which the existence check of each function looks a record up.
KeyOfRecord(kind, ticker, rec) ==
    CASE kind = "prices" -> <<ticker, rec.time>>
      [] kind = "metrics" -> <<rec.ticker, rec.report_period, rec.period>>
      [] kind = "news" -> <<rec.url>>
      [] kind = "insider_trades" ->
            <<rec.ticker, rec.filing_date, rec.name, rec.transaction_date>>

\* Provider answers in which every record carries the requested ticker and no
\* two records share a natural key.
FaithfulResponses(kind, ticker) ==
    {r \in Responses(kind) :
        \A i, j \in 1..Len(r.recs) :
            /\ kind # "prices" => r.recs[i].ticker = ticker
            /\ KeyOfRecord(kind, ticker, r.recs[i])
                  = KeyOfRecord(kind, ticker, r.recs[j]) => i = j}

\* The other invocations in flight are for the same entity kind and ticker.
RunsBeside(p, kind, ticker) ==
    \A q \in Procs \ {p} :
        sessions[q].pc # "idle" => sessions[q].kind = kind /\ sessions[q].ticker = ticker

\* The session after "for record in fetched", before db.commit().
Checked(kind, base, ticker, s) ==
    Session("checked", kind, ticker,
            [i \in {j \in 1..Len(base) : s.rows[j] # base[j]} |-> s.rows[i]],
            s.added, s.saved)

\* An acquire_* function from its start up to db.commit().
BeginAcquire(p) ==
    /\ sessions[p].pc = "idle"
    /\ \E kind \in Kinds, ticker \in Tickers, start_date \in Dates, end_date \in Dates,
          force_refresh \in BOOLEAN :
        /\ start_date <= end_date
        /\ RunsBeside(p, kind, ticker)
        /\ \E resp \in FaithfulResponses(kind, ticker) :
            sessions' = [sessions EXCEPT ![p] =
                IF /\ kind = "prices" /\ ~force_refresh
                   /\ ExistingCount(db[TableOf(kind)], ticker, start_date, end_date) > 0
                THEN Session("done", kind, ticker, <<>>, <<>>, 0)
                ELSE IF ~resp.ok THEN Session("failed", kind, ticker, <<>>, <<>>, 0)
                ELSE IF resp.recs = <<>> THEN Session("done", kind, ticker, <<>>, <<>>, 0)
                ELSE Checked(kind, db[TableOf(kind)], ticker,
                             PersistLoop(kind,
                                         [rows |-> db[TableOf(kind)], added |-> <<>>,
                                          saved |-> 0],
                                         ticker, force_refresh, resp.recs, api_provider))]
    /\ UNCHANGED <<db, api_provider, volume_column>>
    /\ UNCHANGED callVars
    /\ UNCHANGED driverVars

\* The table as this session's flush leaves it: its updates applied to the
\* committed rows, its pending rows inserted.
Flushed(rows, s) ==
    [i \in 1..Len(rows) |-> IF i \in DOMAIN s.updated THEN s.updated[i] ELSE rows[i]]
        \o s.added

\* db.commit() and the return, or the except branch: rollback and re-raise.
CommitAcquire(p) ==
    /\ sessions[p].pc = "checked"
    /\ IF /\ IndexesHold(sessions[p].kind, Flushed(db[TableOf(sessions[p].kind)], sessions[p]))
          /\ ColumnsHold(sessions[p].kind, Flushed(db[TableOf(sessions[p].kind)], sessions[p]))
       THEN /\ db' = [db EXCEPT ![TableOf(sessions[p].kind)] = Flushed(@, sessions[p])]
            /\ sessions' = [sessions EXCEPT ![p].pc = "done"]
       ELSE /\ db' = db
            /\ sessions' = [sessions EXCEPT ![p].pc = "failed", ![p].ret = 0]
    /\ UNCHANGED <<api_provider, volume_column>>
    /\ UNCHANGED callVars
    /\ UNCHANGED driverVars

SpecConcurrent ==
    StoreInit /\ [][\E p \in Procs : BeginAcquire(p) \/ CommitAcquire(p)]_vars

----------------------------------------------------------------------------
(* acquire_all_data (acquisition.py) *)

\* The parameters of acquire_all_data's signature.
AcquireAllDataParams ==
    {"tickers", "start_date", "end_date", "include_prices", "include_metrics",
     "include_news", "include_insider_trades", "force_refresh"}

\* Python raises TypeError for a keyword argument the signature does not have.
RaisesTypeError(kwargs) == ~(kwargs \subseteq AcquireAllDataParams)

\* An order that asks for the metrics first.
KindOrder_MetricsFirst == <<"metrics", "prices", "news", "insider_trades">>

\* The order of the four "if include_..." statements of the try block.
KindOrder == <<"prices", "metrics", "news", "insider_trades">>

Included(args, kind) ==
    CASE kind = "prices" -> args.include_prices
      [] kind = "metrics" -> args.include_metrics
      [] kind = "news" -> args.include_news
      [] kind = "insider_trades" -> args.include_insider_trades

AcquireKind(kind, rows, ticker, args, resp, data_source) ==
    CASE kind = "prices" ->
            acquire_prices(rows, ticker, args.start_date, args.end_date,
                           args.force_refresh, resp, data_source)
      [] kind = "metrics" ->
            acquire_financial_metrics(rows, ticker, args.force_refresh, resp, data_source)
      [] kind = "news" ->
            acquire_company_news(rows, ticker, args.force_refresh, resp, data_source)
      [] kind = "insider_trades" ->
            acquire_insider_trades(rows, ticker, args.force_refresh, resp, data_source)

NoCounts == [k \in {} |-> 0]

\* The try block of one ticker from the k-th kind on: ticker_results grows by
\* one count per included kind; the first exception ends the block with
\* {'error': ...}.  tried lists the kinds whose acquire_* function was called.
RECURSIVE TryTicker(_, _, _, _, _, _, _, _)
TryTicker(d, ticker, args, prov, data_source, k, counts, tried) ==
    IF k > Len(KindOrder)
    THEN [db |-> d, error |-> FALSE, counts |-> counts, tried |-> tried]
    ELSE LET kind == KindOrder[k]
         IN  IF ~Included(args, kind)
             THEN TryTicker(d, ticker, args, prov, data_source, k + 1, counts, tried)
             ELSE LET out == AcquireKind(kind, d[TableOf(kind)], ticker, args,
                                         prov[<<ticker, kind>>], data_source)
                  IN  IF out.err
                      THEN [db |-> [d EXCEPT ![TableOf(kind)] = out.rows],
                            error |-> TRUE, counts |-> NoCounts,
                            tried |-> Append(tried, kind)]
                      ELSE TryTicker([d EXCEPT ![TableOf(kind)] = out.rows], ticker,
                                     args, prov, data_source, k + 1,
                                     (kind :> out.ret) @@ counts, Append(tried, kind))

NoResults == [order |-> <<>>, res |-> [t \in {} |-> 0]]

\* results[ticker] = value: a dict keeps the position of a key's first insertion.
SetResult(results, ticker, value) ==
    [order |-> IF ticker \in DOMAIN results.res THEN results.order
               ELSE Append(results.order, ticker),
     res |-> (ticker :> value) @@ results.res]

RECURSIVE AllDataLoop(_, _, _, _, _, _)
AllDataLoop(d, tickers, args, prov, data_source, results) ==
    IF tickers = <<>> THEN [db |-> d, results |-> results]
    ELSE LET r == TryTicker(d, Head(tickers), args, prov, data_source, 1, NoCounts, <<>>)
         IN  AllDataLoop(r.db, Tail(tickers), args, prov, data_source,
                         SetResult(results, Head(tickers),
                                   [error |-> r.error, counts |-> r.counts,
                                    tried |-> r.tried]))

acquire_all_data(d, args, prov, data_source) ==
    AllDataLoop(d, args.tickers, args, prov, data_source, NoResults)

----------------------------------------------------------------------------
(* Inputs of a pipeline run *)

TickerLists == {<<"A">>, <<"A", "B">>, <<"A", "A">>}

Other(ticker) == CHOOSE t \in Tickers : t # ticker

\* What the provider answers for one ticker and kind in a pipeline run: an
\* exception, nothing, or one record; the record carries the requested
\* ticker when the provider echoes it, else the provider's own symbol.
OneRecord(kind, ticker, echo) ==
    LET stamp == IF echo THEN ticker ELSE Other(ticker)
    IN  CASE kind = "prices" -> [time |-> 1, close |-> 1, volume |-> 1000]
          [] kind = "metrics" ->
                [ticker |-> stamp, report_period |-> 1, period |-> "ttm", ratios |-> 1]
          [] kind = "news" ->
                [ticker |-> stamp, url |-> IF ticker = "A" THEN "u1" ELSE "u2",
                 title |-> "t"]
          [] kind = "insider_trades" ->
                [ticker |-> stamp, filing_date |-> 1, name |-> "n",
                 transaction_date |-> NoDate, transaction_value |-> 1]

AnswerShapes == {"raises", "empty", "one"}

Answer(kind, ticker, echo, shape) ==
    CASE shape = "raises" -> [ok |-> FALSE, recs |-> <<>>]
      [] shape = "empty" -> [ok |-> TRUE, recs |-> <<>>]
      [] shape = "one" -> [ok |-> TRUE, recs |-> <<OneRecord(kind, ticker, echo)>>]

Range(seq) == {seq[i] : i \in 1..Len(seq)}

Asked(args) == {<<t, k>> : t \in Range(args.tickers), k \in {j \in Kinds : Included(args, j)}}

\* The providers of a run: one answer per ticker and kind the run asks for.
ProvidersFor(args, echo) ==
    {[q \in Asked(args) |-> Answer(q[2], q[1], echo, shape[q])] :
        shape \in [Asked(args) -> AnswerShapes]}

AllDataArgs ==
    [tickers : TickerLists, start_date : {1}, end_date : {2},
     include_prices : BOOLEAN, include_metrics : BOOLEAN, include_news : BOOLEAN,
     include_insider_trades : BOOLEAN, force_refresh : BOOLEAN]

----------------------------------------------------------------------------
(* acquire_all_data called twice with the same arguments and provider *)

MaxReruns == 2

CallAcquireAllData ==
    /\ aad = <<>>
    /\ \E args \in AllDataArgs, echo \in BOOLEAN :
         \E prov \in ProvidersFor(args, echo) :
            LET r == acquire_all_data(db, args, prov, api_provider)
            IN  /\ db' = r.db
                /\ aad' = <<[args |-> args, prov |-> prov, pre |-> db,
                             post |-> r.db, results |-> r.results]>>
    /\ UNCHANGED driverVars
    /\ UNCHANGED <<api_provider, volume_column, sessions, last, calls, cli>>

CallAcquireAllDataAgain ==
    /\ aad # <<>>
    /\ Len(aad) < MaxReruns
    /\ LET first == aad[1]
           r == acquire_all_data(db, first.args, first.prov, api_provider)
       IN  /\ db' = r.db
           /\ aad' = Append(aad, [args |-> first.args, prov |-> first.prov, pre |-> db,
                                  post |-> r.db, results |-> r.results])
    /\ UNCHANGED driverVars
    /\ UNCHANGED <<api_provider, volume_column, sessions, last, calls, cli>>

SpecRerun == StoreInit /\ [][CallAcquireAllData \/ CallAcquireAllDataAgain]_vars

----------------------------------------------------------------------------
(* The acquisition CLI (acquire_data.py) *)

\* The option strings parse_args declares; argparse exits with status 2 on any other.
ParserOptions ==
    {"--tickers", "--start-date", "--end-date", "--force-refresh", "--prices-only",
     "--no-prices", "--no-metrics", "--no-news", "--no-insider-trades"}

parse_args_AcceptsAny(options) == TRUE

parse_args(options) == options \subseteq ParserOptions

\* The strings given as dates: the days of the calendar and one that
\* strptime rejects (a thirteenth month).
\* NoDate stands here for the empty string, which is falsy like None.
DateStrings == Dates \cup {13, NoDate}

validate_date(date_str) == date_str \in Dates

\* datetime.now(): the last day of the model's calendar
Today == CHOOSE d \in Dates : \A e \in Dates : e <= d

\* str.lower() on the answers the model types at the prompt
Lower(response) ==
    CASE response = "Y" -> "y"
      [] response = "YES" -> "yes"
      [] OTHER -> response

\* "Determine what to acquire"
IncludeFlags(options) ==
    IF "--prices-only" \in options
    THEN [include_prices |-> TRUE, include_metrics |-> FALSE, include_news |-> FALSE,
          include_insider_trades |-> FALSE]
    ELSE [include_prices |-> "--no-prices" \notin options,
          include_metrics |-> "--no-metrics" \notin options,
          include_news |-> "--no-news" \notin options,
          include_insider_trades |-> "--no-insider-trades" \notin options]

\* end_date = args.end_date; if not end_date: end_date = today
EndDate(argv) ==
    IF "--end-date" \in argv.options /\ argv.end_date # NoDate THEN argv.end_date
    ELSE Today

\* The keyword arguments main passes to acquire_all_data.
CliArgs(argv) ==
    LET inc == IncludeFlags(argv.options)
    IN  [tickers |-> argv.tickers, start_date |-> argv.start_date,
         end_date |-> EndDate(argv),
         include_prices |-> inc.include_prices,
         include_metrics |-> inc.include_metrics,
         include_news |-> inc.include_news,
         include_insider_trades |-> inc.include_insider_trades,
         force_refresh |-> "--force-refresh" \in argv.options]

\* main up to the call of acquire_all_data: the exit status with which it
\* stops there, or -1 when it goes on to acquire; asked tells whether the
\* confirmation prompt was shown.
BeforeAcquire(argv, response, provider_name) ==
    IF ~parse_args(argv.options) THEN [exit |-> 2, asked |-> FALSE]
    ELSE IF ~validate_date(argv.start_date) THEN [exit |-> 1, asked |-> FALSE]
    ELSE IF ~validate_date(EndDate(argv)) THEN [exit |-> 1, asked |-> FALSE]
    ELSE IF argv.start_date > EndDate(argv) THEN [exit |-> 1, asked |-> FALSE]
    ELSE IF provider_name = "database" THEN [exit |-> 1, asked |-> FALSE]
    ELSE IF Lower(response) \notin {"y", "yes"} THEN [exit |-> 0, asked |-> TRUE]
    ELSE [exit |-> -1, asked |-> TRUE]

\* main from the call of acquire_all_data on: the call is made with exactly
\* the signature's keywords; the summary is printed and main returns, which
\* ends the process with status 0; an exception escaping the call gives 1.
AcquireAndExit(d, args, prov, data_source) ==
    IF RaisesTypeError(AcquireAllDataParams)
    THEN [db |-> d, exit |-> 1, results |-> NoResults]
    ELSE LET r == acquire_all_data(d, args, prov, data_source)
         IN  [db |-> r.db, exit |-> 0, results |-> r.results]

\* The whole of main, as a subprocess sees it.
main(d, argv, response, prov, provider_name) ==
    LET b == BeforeAcquire(argv, response, provider_name)
        args == CliArgs(argv)
    IN  IF b.exit # -1 THEN [db |-> d, exit |-> b.exit, results |-> NoResults]
        ELSE AcquireAndExit(d, args, prov, provider_name)

FlagOptions ==
    {"--end-date", "--force-refresh", "--prices-only", "--no-prices", "--no-metrics",
     "--no-news", "--no-insider-trades", "--yes"}

\* --tickers, nargs="+"
CliTickerLists == {<<"A">>, <<"A", "B">>}

Argvs ==
    [options : {{"--tickers", "--start-date"} \cup f : f \in SUBSET FlagOptions},
     tickers : CliTickerLists, start_date : DateStrings, end_date : DateStrings]

PromptAnswers == {"y", "YES", "n", ""}

\* python -m src.acquire_data ...: everything up to the confirmation prompt.
CliStart ==
    /\ ~cli.ran
    /\ \E argv \in Argvs, response \in PromptAnswers :
         LET b == BeforeAcquire(argv, response, api_provider)
         IN  cli' = [ran |-> TRUE, pc |-> IF b.exit = -1 THEN "acquire" ELSE "exit",
                     exit |-> b.exit, asked |-> b.asked,
                     unknown |-> argv.options \ ParserOptions,
                     given |-> [start_date |-> argv.start_date,
                                end_supplied |-> "--end-date" \in argv.options,
                                end_date |-> IF "--end-date" \in argv.options
                                             THEN argv.end_date ELSE NoDate],
                     response |-> response, args |-> CliArgs(argv),
                     todo |-> argv.tickers, pre |-> db, results |-> NoResults]
    /\ UNCHANGED driverVars
    /\ UNCHANGED <<db, api_provider, volume_column, sessions, last, calls, aad>>

\* The confirmed run inside acquire_all_data: one iteration of "for ticker in
\* tickers"; after the last one the summary is printed and main returns,
\* which ends the process with status 0.
CliAcquireTicker ==
    /\ cli.ran /\ cli.pc = "acquire"
    /\ LET ticker == Head(cli.todo)
       IN  \E prov \in ProvidersFor([cli.args EXCEPT !.tickers = <<ticker>>], TRUE) :
              LET r == TryTicker(db, ticker, cli.args, prov, api_provider, 1, NoCounts, <<>>)
                  results == SetResult(cli.results, ticker,
                                       [error |-> r.error, counts |-> r.counts,
                                        tried |-> r.tried])
              IN  /\ db' = r.db
                  /\ cli' = [cli EXCEPT !.todo = Tail(cli.todo), !.results = results,
                                        !.pc = IF Tail(cli.todo) = <<>> THEN "exit"
                                               ELSE "acquire",
                                        !.exit = IF Tail(cli.todo) = <<>> THEN 0 ELSE -1]
    /\ UNCHANGED driverVars
    /\ UNCHANGED <<api_provider, volume_column, sessions, last, calls, aad>>

SpecCli == StoreInit /\ [][CliStart \/ CliAcquireTicker]_vars

----------------------------------------------------------------------------
(* The S&P 500 drivers *)

batch_size == 10

MaxCsv == 2         \* rows of a short data/sp500.csv
MaxProgress == 2    \* lines of the progress file found by the first run
MaxRuns == 2        \* driver runs per behaviour

CsvSymbols == {"A", "B.X", "B-X"}

\* t.replace('.', '-') on the symbols of the model
CleanTicker(t) == IF t = "B.X" THEN "B-X" ELSE t

\* A universe of more than one batch.
LongCsv == <<"T01", "T02", "T03", "T04", "T05", "T06", "T07", "T08", "T09", "T10", "T11">>

NoDup(seq) == \A i, j \in 1..Len(seq) : seq[i] = seq[j] => i = j

CsvFiles ==
    {NoCsv} \cup {[exists |-> TRUE, tickers |-> s] :
                     s \in SeqsUpTo(CsvSymbols, MaxCsv) \cup {LongCsv}}

\* The progress file the first run finds: absent or empty, or the lines that
\* earlier runs have left, one symbol per line.
ProgressFiles == {s \in SeqsUpTo(CsvSymbols, MaxProgress) : NoDup(s)}

Markets == [{CleanTicker(t) : t \in CsvSymbols} -> AnswerShapes]

\* Both drivers set USE_YAHOO_FINANCE=true.
DriverInit ==
    /\ db = EmptyDb
    /\ api_provider = "yahoo_finance"
    /\ volume_column = DeclaredVolumeColumn
    /\ sessions = NoSessions
    /\ last = NoCall
    /\ calls = 0
    /\ aad = <<>>
    /\ cli = NoCli
    /\ sp500_csv \in CsvFiles
    /\ progress_file \in ProgressFiles
    /\ failed_file = NoFile
    /\ market \in Markets
    /\ drv = NoRun
    /\ runs = 0

START_DATE == CHOOSE d \in Dates : \A e \in Dates : d <= e

Shape(t) == IF CleanTicker(t) \in DOMAIN market THEN market[CleanTicker(t)] ELSE "one"

\* The provider of a driver run answers as the market of the behaviour says.
DriverProvider(args) ==
    [q \in Asked(args) |-> Answer(q[2], q[1], TRUE, Shape(q[1]))]

Idle == drv.pc \in {"idle", "done", "killed"}

\* set(line.strip() for line in f if line.strip())
LoadProgress == Range(progress_file)

\* if failed_tickers: open('data/failed_tickers.txt', 'w') ...
WriteFailed(failed_tickers) ==
    IF failed_tickers # <<>> THEN [exists |-> TRUE, lines |-> failed_tickers]
    ELSE failed_file

Remaining_KeepsAll(tickers, completed_tickers) == tickers

\* The tickers of the universe that the progress file does not hold.
Remaining(tickers, completed_tickers) ==
    SelectSeq(tickers, LAMBDA t : t \notin completed_tickers)

\* The tickers of a result map that have no 'error' entry.
Clean(results) == {t \in DOMAIN results.res : ~results.res[t].error}

(* acquire_sp500_full_history.py *)

\* python acquire_sp500_full_history.py, up to the batch loop.
StartFullHistory ==
    /\ Idle /\ runs < MaxRuns
    /\ runs' = runs + 1
    /\ IF ~sp500_csv.exists
       THEN drv' = [NoRun EXCEPT !.script = "full_history", !.pc = "done", !.exit = 1]
       ELSE LET tickers == [i \in 1..Len(sp500_csv.tickers) |->
                               CleanTicker(sp500_csv.tickers[i])]
                completed_tickers == LoadProgress
                remaining_tickers == Remaining(tickers, completed_tickers)
                loaded == [NoRun EXCEPT !.script = "full_history", !.tickers = tickers,
                                        !.after_kill = drv.pc = "killed",
                                        !.completed_tickers = completed_tickers,
                                        !.loaded = completed_tickers,
                                        !.remaining = remaining_tickers]
            IN  IF remaining_tickers = <<>>
                THEN drv' = [loaded EXCEPT !.pc = "done", !.exit = 0]
                ELSE drv' = [loaded EXCEPT !.pc = "loop"]
    /\ UNCHANGED <<db, api_provider, volume_column, sessions, sp500_csv, progress_file, failed_file, market>>
    /\ UNCHANGED callVars

\* A count that adds a batch instead of rounding up.
total_batches_OneMore(remaining_tickers) ==
    Len(remaining_tickers) \div batch_size + 1

total_batches(remaining_tickers) ==
    (Len(remaining_tickers) + batch_size - 1) \div batch_size

Min(a, b) == IF a <= b THEN a ELSE b

batch_tickers(remaining_tickers, batch_num) ==
    SubSeq(remaining_tickers, batch_num * batch_size + 1,
           Min(batch_num * batch_size + batch_size, Len(remaining_tickers)))

\* The keywords of the driver's call of acquire_all_data.
FullHistoryKwargs == AcquireAllDataParams \cup {"include_line_items"}

FullHistoryArgs(batch) ==
    [tickers |-> batch, start_date |-> START_DATE, end_date |-> Today,
     include_prices |-> TRUE, include_metrics |-> TRUE, include_news |-> TRUE,
     include_insider_trades |-> TRUE, force_refresh |-> FALSE]

\* "Track successful tickers": for ticker, result in results.items()
RECURSIVE TrackResults(_, _, _)
TrackResults(order, results, acc) ==
    IF order = <<>> THEN acc
    ELSE LET ticker == Head(order)
         IN  IF ~results.res[ticker].error
             THEN TrackResults(Tail(order), results,
                      [acc EXCEPT !.successful_count = @ + 1,
                                  !.completed_tickers = @ \cup {ticker},
                                  !.progress = Append(@, ticker)])
             ELSE TrackResults(Tail(order), results,
                      [acc EXCEPT !.failed_count = @ + 1,
                                  !.failed_tickers = Append(@, ticker)])

\* try: results = acquire_all_data(... include_line_items=True ...)
CallBatch(batch) ==
    IF RaisesTypeError(FullHistoryKwargs)
    THEN [raised |-> TRUE, db |-> db, results |-> NoResults]
    ELSE [raised |-> FALSE] @@
         acquire_all_data(db, FullHistoryArgs(batch),
                          DriverProvider(FullHistoryArgs(batch)), api_provider)

\* An except branch that marks only the first ticker of the batch as failed.
TrackBatch_FailsFirstTicker(batch, call) ==
    IF call.raised
    THEN [successful_count |-> drv.successful_count,
          failed_count |-> drv.failed_count + 1,
          failed_tickers |-> Append(drv.failed_tickers, Head(batch)),
          completed_tickers |-> drv.completed_tickers,
          progress |-> progress_file]
    ELSE TrackResults(call.results.order, call.results,
                      [successful_count |-> drv.successful_count,
                       failed_count |-> drv.failed_count,
                       failed_tickers |-> drv.failed_tickers,
                       completed_tickers |-> drv.completed_tickers,
                       progress |-> progress_file])

\* The counters and files after the batch: the tracking loop when the call
\* returned, "except Exception" when it raised.
TrackBatch(batch, call) ==
    IF call.raised
    THEN [successful_count |-> drv.successful_count,
          failed_count |-> drv.failed_count + Len(batch),
          failed_tickers |-> drv.failed_tickers \o batch,
          completed_tickers |-> drv.completed_tickers,
          progress |-> progress_file]
    ELSE TrackResults(call.results.order, call.results,
                      [successful_count |-> drv.successful_count,
                       failed_count |-> drv.failed_count,
                       failed_tickers |-> drv.failed_tickers,
                       completed_tickers |-> drv.completed_tickers,
                       progress |-> progress_file])

\* An iteration that sleeps after the last batch too.
EndBatch_SleepsAfterLast(batch, call, acc, more) ==
    /\ db' = call.db
    /\ progress_file' = acc.progress
    /\ failed_file' = IF more THEN failed_file ELSE WriteFailed(acc.failed_tickers)
    /\ drv' = [drv EXCEPT
                  !.at = @ + 1,
                  !.successful_count = acc.successful_count,
                  !.failed_count = acc.failed_count,
                  !.failed_tickers = acc.failed_tickers,
                  !.completed_tickers = acc.completed_tickers,
                  !.attempted = @ \o batch,
                  !.attempt = [tickers |-> batch,
                               how |-> IF call.raised THEN "raised" ELSE "returned",
                               returncode |-> 0, clean |-> Clean(call.results)],
                  !.sleeps = @ + 1,
                  !.pc = IF more THEN "loop" ELSE "done",
                  !.exit = IF more THEN -1
                           ELSE IF acc.failed_count = 0 THEN 0 ELSE 1]

\* The rest of the iteration: the pacing delay when a batch follows, else the
\* final summary, the failed-tickers file and the return value.
EndBatch(batch, call, acc, more) ==
    /\ db' = call.db
    /\ progress_file' = acc.progress
    /\ failed_file' = IF more THEN failed_file ELSE WriteFailed(acc.failed_tickers)
    /\ drv' = [drv EXCEPT
                  !.at = @ + 1,
                  !.successful_count = acc.successful_count,
                  !.failed_count = acc.failed_count,
                  !.failed_tickers = acc.failed_tickers,
                  !.completed_tickers = acc.completed_tickers,
                  !.attempted = @ \o batch,
                  !.attempt = [tickers |-> batch,
                               how |-> IF call.raised THEN "raised" ELSE "returned",
                               returncode |-> 0, clean |-> Clean(call.results)],
                  !.sleeps = IF more THEN @ + 1 ELSE @,
                  !.pc = IF more THEN "loop" ELSE "done",
                  !.exit = IF more THEN -1
                           ELSE IF acc.failed_count = 0 THEN 0 ELSE 1]

RecordBatch(batch, call) ==
    EndBatch(batch, call, TrackBatch(batch, call),
             drv.at < total_batches(drv.remaining) - 1)

\* One iteration of "for batch_num in range(total_batches)"; after the last
\* one the final summary, the failed-tickers file and the return value.
FullHistoryBatch ==
    /\ drv.script = "full_history" /\ drv.pc = "loop"
    /\ RecordBatch(batch_tickers(drv.remaining, drv.at),
                   CallBatch(batch_tickers(drv.remaining, drv.at)))
    /\ UNCHANGED <<api_provider, volume_column, sessions, sp500_csv, market, runs>>
    /\ UNCHANGED callVars

(* acquire_sp500_historical.py *)

\* python acquire_sp500_historical.py, up to the per-ticker loop.
StartHistorical ==
    /\ Idle /\ runs < MaxRuns
    /\ runs' = runs + 1
    /\ IF ~sp500_csv.exists
       THEN drv' = [NoRun EXCEPT !.script = "historical", !.pc = "done", !.exit = 1]
       ELSE LET completed_tickers == LoadProgress
                remaining_df == Remaining(sp500_csv.tickers, completed_tickers)
                loaded == [NoRun EXCEPT !.script = "historical",
                                        !.after_kill = drv.pc = "killed",
                                        !.tickers = sp500_csv.tickers,
                                        !.completed_tickers = completed_tickers,
                                        !.loaded = completed_tickers,
                                        !.remaining = remaining_df]
            IN  IF Len(remaining_df) = 0
                THEN drv' = [loaded EXCEPT !.pc = "done", !.exit = 0]
                ELSE drv' = [loaded EXCEPT !.pc = "loop"]
    /\ UNCHANGED <<db, api_provider, volume_column, sessions, sp500_csv, progress_file, failed_file, market>>
    /\ UNCHANGED callVars

\* cmd: the options and values the driver puts on the command line.
HistoricalArgv(ticker) ==
    [options |-> {"--tickers", "--start-date", "--end-date", "--yes"},
     tickers |-> <<ticker>>, start_date |-> START_DATE, end_date |-> Today]

\* What subprocess.run can do: the child exits, it is still running after the
\* timeout, or the child cannot be started.
SubprocessOutcomes == {"exited", "timeout", "exception"}

\* subprocess.run(cmd, ..., timeout=3000): the child's exit status and what
\* it did to the Store.
RunSubprocess(ticker, how, response) ==
    IF how = "exited"
    THEN main(db, HistoricalArgv(ticker), response,
              DriverProvider(CliArgs(HistoricalArgv(ticker))), api_provider)
    ELSE [db |-> db, exit |-> -1, results |-> NoResults]

\* An iteration that opens the progress file for writing when the ticker failed.
EndTicker_FailureTruncates(ticker, how, r, success, more) ==
    /\ db' = r.db
    /\ progress_file' = IF success THEN Append(progress_file, ticker) ELSE <<>>
    /\ failed_file' =
          IF more THEN failed_file
          ELSE WriteFailed(IF success THEN drv.failed_tickers
                           ELSE Append(drv.failed_tickers, ticker))
    /\ drv' = [drv EXCEPT
                  !.at = @ + 1,
                  !.successful_count = IF success THEN @ + 1 ELSE @,
                  !.failed_count = IF success THEN @ ELSE @ + 1,
                  !.failed_tickers = IF success THEN @ ELSE Append(@, ticker),
                  !.attempted = Append(@, ticker),
                  !.attempt = [tickers |-> <<ticker>>, how |-> how,
                               returncode |-> r.exit, clean |-> Clean(r.results)],
                  !.pc = IF more THEN "loop" ELSE "done",
                  !.exit = IF more THEN -1 ELSE 0]

\* The rest of the iteration: the classification of the attempt; after the
\* last ticker the final summary and the failed-tickers file, and the script
\* ends, which gives status 0.
EndTicker(ticker, how, r, success, more) ==
    /\ db' = r.db
    /\ progress_file' = IF success THEN Append(progress_file, ticker) ELSE progress_file
    /\ failed_file' =
          IF more THEN failed_file
          ELSE WriteFailed(IF success THEN drv.failed_tickers
                           ELSE Append(drv.failed_tickers, ticker))
    /\ drv' = [drv EXCEPT
                  !.at = @ + 1,
                  !.successful_count = IF success THEN @ + 1 ELSE @,
                  !.failed_count = IF success THEN @ ELSE @ + 1,
                  !.failed_tickers = IF success THEN @ ELSE Append(@, ticker),
                  !.attempted = Append(@, ticker),
                  !.attempt = [tickers |-> <<ticker>>, how |-> how,
                               returncode |-> r.exit, clean |-> Clean(r.results)],
                  !.pc = IF more THEN "loop" ELSE "done",
                  !.exit = IF more THEN -1 ELSE 0]

ClassifySubprocess_AnyExit(ticker, how, r) ==
    EndTicker(ticker, how, r, how = "exited", drv.at + 1 < Len(drv.remaining))

\* A classification that takes a timeout for a success.
ClassifySubprocess_TimeoutSucceeds(ticker, how, r) ==
    EndTicker(ticker, how, r, how = "timeout" \/ (how = "exited" /\ r.exit = 0),
              drv.at + 1 < Len(drv.remaining))

\* if result.returncode == 0 ... else ... except TimeoutExpired ... except Exception
ClassifySubprocess(ticker, how, r) ==
    EndTicker(ticker, how, r, how = "exited" /\ r.exit = 0,
              drv.at + 1 < Len(drv.remaining))

\* One iteration of "for idx, (_, row) in enumerate(remaining_df.iterrows(), 1)".
HistoricalTicker ==
    /\ drv.script = "historical" /\ drv.pc = "loop"
    /\ \E how \in SubprocessOutcomes, response \in PromptAnswers :
         ClassifySubprocess(drv.remaining[drv.at + 1], how,
                            RunSubprocess(drv.remaining[drv.at + 1], how, response))
    /\ UNCHANGED <<api_provider, volume_column, sessions, sp500_csv, market, runs>>
    /\ UNCHANGED callVars

\* A stop that takes the last line of the progress file with it.
Interrupt_LosesLastLine ==
    /\ drv.pc = "loop"
    /\ drv' = [drv EXCEPT !.pc = "killed", !.exit = 130]
    /\ progress_file' = SubSeq(progress_file, 1, Len(progress_file) - 1)
    /\ UNCHANGED <<db, api_provider, volume_column, sessions, sp500_csv, failed_file, market, runs>>
    /\ UNCHANGED callVars

\* Ctrl-C or a kill between two iterations: the process ends where it is.
Interrupt ==
    /\ drv.pc = "loop"
    /\ drv' = [drv EXCEPT !.pc = "killed", !.exit = 130]
    /\ UNCHANGED <<db, api_provider, volume_column, sessions, sp500_csv, progress_file, failed_file, market, runs>>
    /\ UNCHANGED callVars

DriverNext ==
    \/ StartFullHistory
    \/ FullHistoryBatch
    \/ StartHistorical
    \/ HistoricalTicker
    \/ Interrupt

SpecDrivers == DriverInit /\ [][DriverNext]_vars

(* The acquire_* functions under a provider configuration that changes *)

\* The environment of the next process selects the other provider
\* (USE_YAHOO_FINANCE), between two calls.
SetProvider ==
    /\ last.op = "none"
    /\ \E p \in Providers \ {api_provider} : api_provider' = p
    /\ UNCHANGED driverVars
    /\ UNCHANGED <<db, volume_column, sessions, last, calls, aad, cli>>

SpecProvider == StoreInit /\ [][StoreNext \/ SetProvider]_vars

(* app/backend/database/backtest_repository.py *)

MaxBacktestOps == 4
MaxBacktestRuns == 2

\* Optional values: <<>> is None, <<v>> is the value v.
None == <<>>

Some(v) == <<v>>

BacktestStatuses == {"IN_PROGRESS", "COMPLETE", "ERROR"}

\* The optional result fields of update_backtest_run_status; the other eight
\* are handled by the same statement as final_portfolio_value.
ResultFields == {"final_portfolio_value", "max_drawdown_date", "error_message"}

ResultValues(f) ==
    CASE f = "final_portfolio_value" -> {None, Some(0), Some(100)}
      [] f = "max_drawdown_date" -> {None, Some(2)}
      [] f = "error_message" -> {None, Some("boom")}

UpdateArgs ==
    [status : BacktestStatuses,
     final_portfolio_value : ResultValues("final_portfolio_value"),
     max_drawdown_date : ResultValues("max_drawdown_date"),
     error_message : ResultValues("error_message")]

\* The run ids a caller may pass: those ever given out and one more.
BacktestIds == 1..(MaxBacktestRuns + 1)

\* The database with the two backtest tables and the sequence of run ids.
BacktestDb ==
    EmptyDb @@ [backtest_runs |-> <<>>, backtest_daily_results |-> <<>>,
                backtest_runs_id_seq |-> 0]

\* db.query(BacktestRun).filter(BacktestRun.id == backtest_run_id).first():
\* the position of the row, 0 for None.
FindRun(d, backtest_run_id) ==
    IF \E i \in 1..Len(d.backtest_runs) : d.backtest_runs[i].id = backtest_run_id
    THEN CHOOSE i \in 1..Len(d.backtest_runs) : d.backtest_runs[i].id = backtest_run_id
    ELSE 0

create_backtest_run(d, name, now) ==
    LET backtest_run ==
            [id |-> d.backtest_runs_id_seq + 1, name |-> name,
             status |-> "IN_PROGRESS", started_at |-> Some(now),
             completed_at |-> None, final_portfolio_value |-> None,
             max_drawdown_date |-> None, error_message |-> None]
    IN  [db |-> [d EXCEPT !.backtest_runs = Append(@, backtest_run),
                          !.backtest_runs_id_seq = @ + 1],
         ret |-> [raised |-> "", value |-> Some(backtest_run)]]

\* An update that stamps completed_at whatever the new status.
update_backtest_run_status_AlwaysCompletes(d, backtest_run_id, a, now) ==
    LET i == FindRun(d, backtest_run_id)
        set(old, new) == IF new # None THEN new ELSE old
    IN  IF i = 0
        THEN [db |-> d, ret |-> [raised |-> "ValueError", value |-> None]]
        ELSE LET backtest_run ==
                     [d.backtest_runs[i] EXCEPT
                        !.status = a.status,
                        !.completed_at = Some(now),
                        !.final_portfolio_value = set(@, a.final_portfolio_value),
                        !.max_drawdown_date = set(@, a.max_drawdown_date),
                        !.error_message = set(@, a.error_message)]
             IN  [db |-> [d EXCEPT !.backtest_runs[i] = backtest_run],
                  ret |-> [raised |-> "", value |-> Some(backtest_run)]]

update_backtest_run_status(d, backtest_run_id, a, now) ==
    LET i == FindRun(d, backtest_run_id)
        set(old, new) == IF new # None THEN new ELSE old
    IN  IF i = 0
        THEN [db |-> d, ret |-> [raised |-> "ValueError", value |-> None]]
        ELSE LET backtest_run ==
                     [d.backtest_runs[i] EXCEPT
                        !.status = a.status,
                        !.completed_at = IF a.status = "COMPLETE" THEN Some(now) ELSE @,
                        !.final_portfolio_value = set(@, a.final_portfolio_value),
                        !.max_drawdown_date = set(@, a.max_drawdown_date),
                        !.error_message = set(@, a.error_message)]
             IN  [db |-> [d EXCEPT !.backtest_runs[i] = backtest_run],
                  ret |-> [raised |-> "", value |-> Some(backtest_run)]]

\* The insert fails at commit when the run does not exist (foreign key) or the
\* run already has a result for the date (idx_backtest_date).
add_daily_result(d, backtest_run_id, date) ==
    LET daily_result == [backtest_run_id |-> backtest_run_id, date |-> date]
    IN  IF \/ FindRun(d, backtest_run_id) = 0
           \/ \E k \in 1..Len(d.backtest_daily_results) :
                 d.backtest_daily_results[k] = daily_result
        THEN [db |-> d, ret |-> [raised |-> "IntegrityError", value |-> None]]
        ELSE [db |-> [d EXCEPT !.backtest_daily_results = Append(@, daily_result)],
              ret |-> [raised |-> "", value |-> Some(daily_result)]]

get_backtest_run(d, backtest_run_id) ==
    [db |-> d,
     ret |-> [raised |-> "",
              value |-> IF FindRun(d, backtest_run_id) = 0 THEN None
                        ELSE Some(d.backtest_runs[FindRun(d, backtest_run_id)])]]

\* db.delete(backtest_run); db.commit(): the row goes, and with it the daily
\* results that refer to it (ondelete="CASCADE").
delete_backtest_run(d, backtest_run_id) ==
    IF FindRun(d, backtest_run_id) = 0
    THEN [db |-> d, ret |-> [raised |-> "", value |-> Some(FALSE)]]
    ELSE [db |-> [d EXCEPT
                    !.backtest_runs =
                        SelectSeq(@, LAMBDA r : r.id # backtest_run_id),
                    !.backtest_daily_results =
                        SelectSeq(@, LAMBDA r : r.backtest_run_id # backtest_run_id)],
          ret |-> [raised |-> "", value |-> Some(TRUE)]]

BacktestInit ==
    /\ db = BacktestDb
    /\ api_provider = "yahoo_finance"
    /\ volume_column = DeclaredVolumeColumn
    /\ sessions = NoSessions
    /\ last = NoCall
    /\ calls = 0
    /\ aad = <<>>
    /\ cli = NoCli
    /\ NoDrivers

\* A repository call and what the caller gets; utcnow() is the number of the
\* call.
RecordBacktest(op, backtest_run_id, args, out) ==
    /\ db' = out.db
    /\ last' = [op |-> op, id |-> backtest_run_id, args |-> args, pre |-> db,
                now |-> calls + 1, ret |-> out.ret]
    /\ calls' = calls + 1
    /\ UNCHANGED driverVars
    /\ UNCHANGED <<api_provider, volume_column, sessions, aad, cli>>

CreateBacktestRun ==
    /\ calls < MaxBacktestOps /\ last.op = "none"
    /\ db.backtest_runs_id_seq < MaxBacktestRuns
    /\ RecordBacktest("create_backtest_run", 0, <<>>,
                      create_backtest_run(db, None, calls + 1))

UpdateBacktestRunStatus ==
    /\ calls < MaxBacktestOps /\ last.op = "none"
    /\ \E backtest_run_id \in BacktestIds, a \in UpdateArgs :
          RecordBacktest("update_backtest_run_status", backtest_run_id, a,
                         update_backtest_run_status(db, backtest_run_id, a, calls + 1))

AddDailyResult ==
    /\ calls < MaxBacktestOps /\ last.op = "none"
    /\ \E backtest_run_id \in BacktestIds, date \in Dates :
          RecordBacktest("add_daily_result", backtest_run_id, <<date>>,
                         add_daily_result(db, backtest_run_id, date))

GetBacktestRun ==
    /\ calls < MaxBacktestOps /\ last.op = "none"
    /\ \E backtest_run_id \in BacktestIds :
          RecordBacktest("get_backtest_run", backtest_run_id, <<>>,
                         get_backtest_run(db, backtest_run_id))

DeleteBacktestRun ==
    /\ calls < MaxBacktestOps /\ last.op = "none"
    /\ \E backtest_run_id \in BacktestIds :
          RecordBacktest("delete_backtest_run", backtest_run_id, <<>>,
                         delete_backtest_run(db, backtest_run_id))

BacktestNext ==
    \/ CreateBacktestRun
    \/ UpdateBacktestRunStatus
    \/ AddDailyResult
    \/ GetBacktestRun
    \/ DeleteBacktestRun
    \/ ReturnToCaller

SpecBacktests == BacktestInit /\ [][BacktestNext]_vars

(* Driver runs that nothing stops *)

\* Each script is a process that keeps running until it ends: the loop of a
\* started run goes on to its next iteration. The child of the subprocess
\* driver is bounded by timeout=3000.
DriverRunNext ==
    \/ StartFullHistory
    \/ FullHistoryBatch
    \/ StartHistorical
    \/ HistoricalTicker

SpecDriverRuns ==
    /\ DriverInit
    /\ [][DriverRunNext]_vars
    /\ WF_vars(FullHistoryBatch)
    /\ WF_vars(HistoricalTicker)

(* The batch driver over universes of every length up to MaxUniverse *)

MaxUniverse == 21

UniverseSymbols ==
    <<"T01", "T02", "T03", "T04", "T05", "T06", "T07", "T08", "T09", "T10",
      "T11", "T12", "T13", "T14", "T15", "T16", "T17", "T18", "T19", "T20",
      "T21", "T22", "T23", "T24", "T25">>

UniverseFiles ==
    {[exists |-> TRUE, tickers |-> SubSeq(UniverseSymbols, 1, n)] : n \in 1..MaxUniverse}

\* Progress files that earlier runs can have left for such a universe.
UniverseProgressFiles == {<<>>, <<"T02">>, <<"T11", "T05">>}

UniverseInit ==
    /\ db = EmptyDb
    /\ api_provider = "yahoo_finance"
    /\ volume_column = DeclaredVolumeColumn
    /\ sessions = NoSessions
    /\ last = NoCall
    /\ calls = 0
    /\ aad = <<>>
    /\ cli = NoCli
    /\ sp500_csv \in UniverseFiles
    /\ progress_file \in UniverseProgressFiles
    /\ failed_file = NoFile
    /\ market = [t \in {} |-> "one"]
    /\ drv = NoRun
    /\ runs = 0

SpecBatches == UniverseInit /\ [][StartFullHistory \/ FullHistoryBatch \/ Interrupt]_vars

----------------------------------------------------------------------------
(* Helpers of the properties *)

\* The natural key of a stored row, per entity kind.
NaturalKey(kind, row) ==
    CASE kind = "prices" -> <<row.ticker, row.date>>
      [] kind = "metrics" -> <<row.ticker, row.report_period, row.period>>
      [] kind = "news" -> <<row.url>>
      [] kind = "insider_trades" ->
            <<row.ticker, row.filing_date, row.name, row.transaction_date>>

RowsWithKey(kind, rows, key) == {i \in 1..Len(rows) : NaturalKey(kind, rows[i]) = key}

OneRowPerKey(kind, rows) ==
    \A i, j \in 1..Len(rows) :
        NaturalKey(kind, rows[i]) = NaturalKey(kind, rows[j]) => i = j

\* The natural key of a fetched metrics record.
MetricsKey(rec) == <<rec.ticker, rec.report_period, rec.period>>

LastOf(S) == CHOOSE n \in S : \A m \in S : m <= n

AllOk(results) == \A t \in DOMAIN results.res : ~results.res[t].error

\* The tickers a driver run has handed to the acquirer are none of the
\* tickers the progress file held when the run loaded it.
SkipsCheckpointed == Range(drv.attempted) \cap drv.loaded = {}

----------------------------------------------------------------------------
(* C1: a driver step appends to the progress file only tickers whose       *)
(* attempt in that step acquired every requested entity kind without       *)
(* error; the lines the file already had stay as they are.  This is the    *)
(* step by which every line of the file comes to be there, for the batch   *)
(* driver and for the per-ticker subprocess driver.                        *)
C1_OnlyCleanTickersAppended ==
    [][/\ Len(progress_file') >= Len(progress_file)
       /\ SubSeq(progress_file', 1, Len(progress_file)) = progress_file
       /\ \A i \in (Len(progress_file) + 1)..Len(progress_file') :
             progress_file'[i] \in drv'.attempt.clean]_vars

\* A driver attempt has ended in failure and none of its tickers is in the
\* progress file.
C1_Witness ==
    /\ drv.attempt.how # "none"
    /\ drv.attempt.clean = {}
    /\ Range(drv.attempt.tickers) \subseteq Range(drv.failed_tickers)
    /\ Range(drv.attempt.tickers) \cap Range(progress_file) = {}

(* C2: acquire_all_data run twice with the same arguments, force_refresh   *)
(* false, and a provider that returns the same records both times: the     *)
(* Store after the second run is the Store after the first run, and the    *)
(* second run returns no error and a count of 0 for every entity kind.     *)
C2_SecondRunChangesNothing ==
    (/\ Len(aad) = 2
     /\ ~aad[1].args.force_refresh
     /\ \A q \in DOMAIN aad[1].prov : aad[1].prov[q].ok) =>
        /\ aad[2].post = aad[1].post
        /\ \A t \in DOMAIN aad[2].results.res :
              /\ ~aad[2].results.res[t].error
              /\ \A k \in DOMAIN aad[2].results.res[t].counts :
                    aad[2].results.res[t].counts[k] = 0

(* C3: a driver run, restarted or not, hands to the acquirer none of the   *)
(* tickers that the progress file held when the run loaded it, and a run   *)
(* that completes has attempted exactly the other tickers of the universe, *)
(* in the order of the universe.                                           *)
C3_ResumeAttemptsExactlyTheRest ==
    /\ SkipsCheckpointed
    /\ (drv.pc = "done" /\ sp500_csv.exists) =>
          drv.attempted = SelectSeq(drv.tickers, LAMBDA t : t \notin drv.loaded)

\* A run that followed an interrupted one has completed: the progress file
\* held some tickers of the universe and the run attempted the others.
C3_Witness ==
    /\ drv.pc = "done" /\ drv.after_kill
    /\ drv.loaded \cap Range(drv.tickers) # {}
    /\ drv.attempted # <<>>

(* C4: after the batch driver has processed a batch in which the provider  *)
(* fails for exactly one ticker, every other ticker of the batch is        *)
(* classified as success and checkpointed, with its records stored, and    *)
(* the failing ticker is in the failed list and not in the progress file.  *)
C4_BatchIsolatesTheFailingTicker ==
    (/\ drv.script = "full_history" /\ drv.attempt.how # "none"
     /\ Cardinality({t \in Range(drv.attempt.tickers) : Shape(t) = "raises"}) = 1) =>
        \A t \in Range(drv.attempt.tickers) :
            IF Shape(t) = "raises"
            THEN /\ t \in Range(drv.failed_tickers)
                 /\ t \notin Range(progress_file)
            ELSE /\ t \in Range(progress_file)
                 /\ t \notin Range(drv.failed_tickers)
                 /\ Shape(t) = "one" =>
                       \E i \in 1..Len(db.historical_prices) :
                           db.historical_prices[i].ticker = t

(* C5: after any sequence of acquire_* calls the Store holds at most one   *)
(* row per natural key, for each of the four tables.                       *)
C5_OneRowPerNaturalKey ==
    \A kind \in Kinds : OneRowPerKey(kind, db[TableOf(kind)])

(* C6: two fetched news records that share a URL but differ in ticker      *)
(* resolve to exactly one stored row: after a call of acquire_company_news *)
(* whose fetch held two such records, that URL is on exactly one row.      *)
C6_SharedUrlIsOneRow ==
    (last.op = "news" /\ last.resp.ok) =>
        \A m, n \in 1..Len(last.resp.recs) :
            (/\ m < n
             /\ last.resp.recs[m].url = last.resp.recs[n].url
             /\ last.resp.recs[m].ticker # last.resp.recs[n].ticker) =>
                Cardinality(RowsWithKey("news", db.company_news,
                                        <<last.resp.recs[n].url>>)) = 1

(* C7: acquire_financial_metrics on a Store that holds a metrics row whose *)
(* key (ticker, report_period, period) the re-fetch returns: with          *)
(* force_refresh the row's non-key fields are the fetched values after the *)
(* call, without force_refresh the row is as before.                       *)
C7_MetricsForceRefreshOverwrites ==
    last.op = "metrics" =>
        \A i \in 1..Len(last.pre) :
            LET same == {n \in 1..Len(last.resp.recs) :
                            MetricsKey(last.resp.recs[n]) =
                                NaturalKey("metrics", last.pre[i])}
            IN  same # {} =>
                    IF last.force_refresh
                    THEN /\ db.financial_metrics[i].ratios =
                                last.resp.recs[LastOf(same)].ratios
                         /\ NaturalKey("metrics", db.financial_metrics[i]) =
                                NaturalKey("metrics", last.pre[i])
                    ELSE db.financial_metrics[i] = last.pre[i]

(* C8: a run of the acquisition CLI that acquired ends with status 0       *)
(* exactly when every requested ticker succeeded, and with status 1 when   *)
(* any ticker failed.                                                      *)
C8_ExitStatusTellsFailure ==
    (cli.ran /\ cli.pc = "exit" /\ cli.results.order # <<>>) =>
        cli.exit = IF AllOk(cli.results) THEN 0 ELSE 1

(* C9: a ticker for which the provider returns an empty sequence for every *)
(* entity kind is classified as success by the driver that attempted it    *)
(* and is appended to the progress file.                                   *)
C9_EmptyTickerIsCheckpointed ==
    \A t \in Range(drv.attempted) :
        Shape(t) = "empty" =>
            /\ t \in Range(progress_file)
            /\ t \notin Range(drv.failed_tickers)

(* C10: the progress file holds each ticker symbol on at most one line, in *)
(* every reachable state, over all runs and restarts of both drivers.      *)
C10_ProgressFileHasNoDuplicate == NoDup(progress_file)

\* A second run has completed over a universe that the progress file partly
\* covered, after attempting a ticker.
C10_Witness ==
    /\ runs = MaxRuns /\ drv.pc = "done"
    /\ progress_file # <<>>
    /\ drv.attempted # <<>>
    /\ Range(progress_file) \cap Range(drv.tickers) # {}

(* C11: after every completed driver run the failed-tickers file holds     *)
(* exactly the tickers that failed in that run, in the order of failure;   *)
(* a run without failures leaves no ticker of an earlier run in it.        *)
C11_FailedFileIsOfTheLastRun ==
    (drv.pc = "done" /\ sp500_csv.exists) => failed_file.lines = drv.failed_tickers

\* The dates given on the command line are refused by the claim's rule: the
\* start date or a supplied end date is no valid date, or start > end.
BadDates(given) ==
    \/ given.start_date \notin Dates
    \/ given.end_supplied /\ given.end_date \notin Dates
    \/ /\ given.start_date \in Dates
       /\ given.start_date > (IF given.end_supplied THEN given.end_date ELSE Today)

(* C12: a CLI run whose start date or supplied end date is no valid date,  *)
(* or whose start is after its end, has exited with a non-zero status,     *)
(* without a provider call and with the Store as it was; a run with        *)
(* start = end is not refused for its dates, and a run without an end date *)
(* uses the current date.                                                  *)
C12_BadDatesAreRejected ==
    cli.ran =>
        /\ BadDates(cli.given) =>
              /\ cli.pc = "exit" /\ cli.exit # 0
              /\ cli.results = NoResults /\ db = cli.pre
        /\ (~BadDates(cli.given) /\ cli.unknown = {}) => cli.asked
        /\ ~cli.given.end_supplied => cli.args.end_date = Today

(* C13: a CLI run whose prompt was not answered y or yes has made no       *)
(* provider call and no Store write; a run that was given the bypass       *)
(* option --yes with acceptable dates acquires without showing the prompt. *)
C13_PromptGatesUnlessBypassed ==
    cli.ran =>
        /\ ("--yes" \notin cli.unknown /\ Lower(cli.response) \notin {"y", "yes"}) =>
              /\ cli.results = NoResults
              /\ db = cli.pre
        /\ ("--yes" \in cli.unknown /\ ~BadDates(cli.given)) =>
              /\ ~cli.asked
              /\ cli.pc = "acquire" \/ cli.results.order # <<>>

\* The natural keys a table holds.
KeysOf(kind, rows) == {NaturalKey(kind, rows[i]) : i \in 1..Len(rows)}

(* C14: no acquisition step deletes a stored record: whatever the call
   (successful or failing, forced or not), every natural key the Store held
   before the step is still held after it, and no table gets shorter. *)
C14_NoKeyIsEverRemoved ==
    [][\A kind \in Kinds :
          /\ KeysOf(kind, db[TableOf(kind)]) \subseteq KeysOf(kind, db'[TableOf(kind)])
          /\ Len(db'[TableOf(kind)]) >= Len(db[TableOf(kind)])]_vars

\* A forced call on a non-empty table failed at commit and the rows it found
\* are all still there.
C14_Witness ==
    /\ last.op # "none"
    /\ last.force_refresh /\ last.err /\ last.resp.ok
    /\ last.pre # <<>>
    /\ db[TableOf(last.op)] = last.pre

(* C15: a fetched price bar whose volume is beyond the signed 32-bit range is
   persisted with the fetched volume: after a call of acquire_prices that
   fetched bars of distinct dates, every such bar that the call had to write
   (its key was absent, or the call was forced) is a stored row of the ticker
   and date with exactly that volume, the call did not fail, and no stored
   volume is negative. *)
C15_LargeVolumeIsStoredAsFetched ==
    (last.op = "prices" /\ last.fetched /\ last.resp.ok) =>
        LET recs == last.resp.recs
            rows == db.historical_prices
            absent(d) == \A j \in 1..Len(last.pre) :
                            ~(last.pre[j].ticker = last.ticker /\ last.pre[j].date = d)
        IN  /\ (\A i, j \in 1..Len(recs) : recs[i].time = recs[j].time => i = j) =>
                  \A i \in 1..Len(recs) :
                      (recs[i].volume > 2147483
                          /\ (last.force_refresh \/ absent(recs[i].time))) =>
                          /\ ~last.err
                          /\ \E j \in 1..Len(rows) :
                                /\ rows[j].ticker = last.ticker
                                /\ rows[j].date = recs[i].time
                                /\ rows[j].volume = recs[i].volume
            /\ \A j \in 1..Len(rows) : rows[j].volume >= 0

(* C16: in a driver run, once the attempt of a ticker is over and before the
   attempt of the next one begins, every ticker of that attempt which the
   provider serves without error (whose acquisition succeeds) is a line of
   the progress file, so that an interruption at that point loses no
   checkpoint. *)
C16_SuccessIsCheckpointedBeforeTheNextAttempt ==
    (drv.pc \in {"loop", "killed", "done"}
        /\ drv.attempt.how \in {"exited", "returned", "raised"}) =>
        \A t \in Range(drv.attempt.tickers) :
            Shape(t) # "raises" => t \in Range(progress_file)

(* C17: when two invocations for the same ticker and entity kind run side by
   side, each checking for existence and then writing in its own
   transaction, then once both have ended no table holds two rows that share
   a natural key. *)
C17_ConcurrentAcquisitionsKeepKeysUnique ==
    (\A p \in Procs : sessions[p].pc \in {"done", "failed"}) =>
        \A kind \in Kinds : OneRowPerKey(kind, db[TableOf(kind)])

\* The stored dates of a ticker inside a range.
StoredDates(rows, ticker, start_date, end_date) ==
    {rows[i].date : i \in {j \in 1..Len(rows) :
        /\ rows[j].ticker = ticker
        /\ rows[j].date >= start_date
        /\ rows[j].date <= end_date}}

(* C18: a call of acquire_prices with force_refresh false that finds at
   least one stored price row of the ticker with a date inside
   [start_date, end_date] returns 0, does not call the provider and leaves
   the table as it was, whichever dates of the range are missing. *)
C18_AnyStoredDateSkipsTheFetch ==
    (/\ last.op = "prices" /\ ~last.force_refresh
     /\ StoredDates(last.pre, last.ticker, last.start_date, last.end_date) # {}) =>
        /\ last.ret = 0
        /\ ~last.fetched
        /\ ~last.err
        /\ db.historical_prices = last.pre

\* The call was skipped although a date of the range was missing and the
\* provider had bars to give.
C18_Witness ==
    /\ last.op = "prices" /\ ~last.force_refresh
    /\ StoredDates(last.pre, last.ticker, last.start_date, last.end_date) # {}
    /\ StoredDates(last.pre, last.ticker, last.start_date, last.end_date)
          # last.start_date..last.end_date
    /\ last.resp.ok /\ last.resp.recs # <<>>
    /\ ~last.fetched /\ last.ret = 0

\* The stored price rows of a ticker and date.
PriceRowsOf(rows, ticker, date) ==
    {j \in 1..Len(rows) : rows[j].ticker = ticker /\ rows[j].date = date}

(* C19: a call of acquire_prices with force_refresh true that fetched bars
   does not fail, returns the number of fetched bars, and leaves for each
   fetched date exactly one row of the ticker, whose close and volume are
   those of a fetched bar of that date. *)
C19_ForcedCallWritesEveryBar ==
    (last.op = "prices" /\ last.force_refresh /\ last.fetched /\ last.resp.ok) =>
        LET recs == last.resp.recs
            rows == db.historical_prices
        IN  /\ ~last.err
            /\ last.ret = Len(recs)
            /\ \A i \in 1..Len(recs) :
                  /\ Cardinality(PriceRowsOf(rows, last.ticker, recs[i].time)) = 1
                  /\ \A j \in PriceRowsOf(rows, last.ticker, recs[i].time) :
                        \E k \in 1..Len(recs) :
                            /\ recs[k].time = recs[i].time
                            /\ rows[j].close = recs[k].close
                            /\ rows[j].volume = recs[k].volume

\* The fetched records that the existence check matches with a stored row
\* and that carry other values than the row has.
ReappearChanged(kind, rows, ticker, recs) ==
    {i \in 1..Len(recs) :
        \E j \in 1..Len(rows) :
            /\ Matches(kind, rows[j], ticker, recs[i])
            /\ UpdateRow(kind, rows[j], recs[i], rows[j].data_source) # rows[j]}

(* C20: after a call of any acquire_* function with force_refresh false,
   every row the table held before the call is still there with every field
   as it was, whatever the provider returned. *)
C20_UnforcedCallKeepsExistingRows ==
    (last.op # "none" /\ ~last.force_refresh) =>
        /\ Len(db[TableOf(last.op)]) >= Len(last.pre)
        /\ \A i \in 1..Len(last.pre) : db[TableOf(last.op)][i] = last.pre[i]

\* An unforced call fetched a record of a stored key with new values, skipped
\* it, and wrote another record.
C20_Witness ==
    /\ last.op # "none" /\ ~last.force_refresh
    /\ last.fetched /\ ~last.err
    /\ ReappearChanged(last.op, last.pre, last.ticker, last.resp.recs) # {}
    /\ last.ret > 0
    /\ \A i \in 1..Len(last.pre) : db[TableOf(last.op)][i] = last.pre[i]

\* The non-key fields of a stored row, and the values a fetched record has
\* for them.
RowValues(kind, row) ==
    CASE kind = "prices" -> <<row.close, row.volume>>
      [] kind = "metrics" -> <<row.ratios>>
      [] kind = "news" -> <<row.ticker, row.title>>
      [] kind = "insider_trades" -> <<row.transaction_value>>

RecValues(kind, rec) ==
    CASE kind = "prices" -> <<rec.close, rec.volume>>
      [] kind = "metrics" -> <<rec.ratios>>
      [] kind = "news" -> <<rec.ticker, rec.title>>
      [] kind = "insider_trades" -> <<rec.transaction_value>>

\* The fetched records for which the existence check finds row i.
FoundAt(kind, rows, ticker, recs, i) ==
    {k \in 1..Len(recs) : First(kind, rows, ticker, recs[k]) = i}

(* C21: after a call with force_refresh true that did not fail, every row the
   table held before the call still has its natural key, and every row the
   existence check found for a fetched record has the non-key values of a
   fetched record that found it and the current data source. *)
C21_UpdateOverwritesValuesAndKeepsKey ==
    (last.op # "none" /\ last.force_refresh /\ ~last.err) =>
        LET kind == last.op
            rows == db[TableOf(last.op)]
        IN  /\ Len(rows) >= Len(last.pre)
            /\ \A i \in 1..Len(last.pre) :
                  /\ NaturalKey(kind, rows[i]) = NaturalKey(kind, last.pre[i])
                  /\ (last.fetched
                        /\ FoundAt(kind, last.pre, last.ticker, last.resp.recs, i) # {}) =>
                        /\ rows[i].data_source = api_provider
                        /\ \E k \in FoundAt(kind, last.pre, last.ticker, last.resp.recs, i) :
                              RowValues(kind, rows[i]) = RecValues(kind, last.resp.recs[k])

\* A forced call found a stored metrics, news or insider-trade row for a
\* fetched record that carries other values and another ticker than asked.
C21_Witness ==
    /\ last.op \in {"metrics", "news", "insider_trades"}
    /\ last.force_refresh /\ last.fetched /\ ~last.err
    /\ \E i \in 1..Len(last.pre) :
          /\ db[TableOf(last.op)][i] # last.pre[i]
          /\ \E k \in FoundAt(last.op, last.pre, last.ticker, last.resp.recs, i) :
                last.resp.recs[k].ticker # last.ticker

\* What a call that has just ended wrote: the rows it inserted, the stored
\* rows it updated, and the fetched records it applied as updates.
InsertedRows == Len(db[TableOf(last.op)]) - Len(last.pre)

UpdatedRows ==
    IF last.force_refresh /\ last.fetched
    THEN {i \in 1..Len(last.pre) :
            FoundAt(last.op, last.pre, last.ticker, last.resp.recs, i) # {}}
    ELSE {}

AppliedAsUpdate ==
    IF last.force_refresh /\ last.fetched
    THEN {k \in 1..Len(last.resp.recs) :
            First(last.op, last.pre, last.ticker, last.resp.recs[k]) > 0}
    ELSE {}

(* C22 as stated: the integer an acquire_* call returns is the number of
   rows it inserted plus the number of rows it updated; a return of 0 leaves
   the table as it was; a call that raises returns no count and writes
   nothing. *)
C22_CountIsRowsWritten ==
    last.op # "none" =>
        /\ ~last.err => last.ret = InsertedRows + Cardinality(UpdatedRows)
        /\ (~last.err /\ last.ret = 0) => db[TableOf(last.op)] = last.pre
        /\ last.err => db[TableOf(last.op)] = last.pre

(* C22 amended: the integer an acquire_* call returns is the number of
   fetched records it wrote, each inserted record and each record applied as
   an update counting once (two records that update the same row count
   twice); skipped records are not counted; a return of 0 leaves the table
   as it was; a call that raises writes nothing. *)
C22_CountIsRecordsWritten ==
    last.op # "none" =>
        /\ ~last.err => last.ret = InsertedRows + Cardinality(AppliedAsUpdate)
        /\ (~last.err /\ last.ret = 0) => db[TableOf(last.op)] = last.pre
        /\ last.err => db[TableOf(last.op)] = last.pre

\* A forced call applied two fetched records to one stored row and returned 2.
C22_Witness ==
    /\ last.op # "none" /\ ~last.err
    /\ Cardinality(AppliedAsUpdate) = 2
    /\ Cardinality(UpdatedRows) = 1
    /\ last.ret = 2

\* The included entity kinds of a call, in the order prices, metrics, news,
\* insider trades.
IncludedInOrder(args) ==
    SelectSeq(<<"prices", "metrics", "news", "insider_trades">>,
              LAMBDA kind : Included(args, kind))

\* The positions, in that order, of the kinds for which the provider raises.
RaisingAt(call, ticker) ==
    {n \in 1..Len(IncludedInOrder(call.args)) :
        ~call.prov[<<ticker, IncludedInOrder(call.args)[n]>>].ok}

(* C23: in every call of acquire_all_data each ticker of the list has a
   result; the kinds attempted for a ticker are the included kinds in the
   order prices, metrics, news, insider trades, up to and including the first
   that raised; a ticker for which one raised has only the error and no
   count, a ticker for which none raised has one count per included kind;
   and on a first call over distinct tickers the attempt of a ticker stops
   exactly at the first kind for which the provider raises, whatever
   happened to the tickers before it. *)
C23_FirstErrorEndsTheTickerOnly ==
    \A j \in 1..Len(aad) :
        LET call == aad[j]
            inc == IncludedInOrder(call.args)
        IN  /\ DOMAIN call.results.res = Range(call.args.tickers)
            /\ \A t \in DOMAIN call.results.res :
                  LET r == call.results.res[t]
                  IN  /\ \E n \in 0..Len(inc) : r.tried = SubSeq(inc, 1, n)
                      /\ r.error => r.counts = NoCounts /\ r.tried # <<>>
                      /\ ~r.error => r.tried = inc /\ DOMAIN r.counts = Range(inc)
                      /\ (j = 1 /\ NoDup(call.args.tickers)) =>
                            IF RaisingAt(call, t) = {}
                            THEN ~r.error
                            ELSE /\ r.error
                                 /\ \A n \in RaisingAt(call, t) : Len(r.tried) <= n
                                 /\ Len(r.tried) \in RaisingAt(call, t)

\* The first ticker of a call failed at its metrics after its prices were
\* stored, and the second ticker went through all four kinds.
C23_Witness ==
    /\ aad # <<>>
    /\ aad[1].args.tickers = <<"A", "B">>
    /\ aad[1].results.res["A"].error
    /\ aad[1].results.res["A"].tried = <<"prices", "metrics">>
    /\ aad[1].post.historical_prices # <<>>
    /\ ~aad[1].results.res["B"].error
    /\ Len(aad[1].results.res["B"].tried) = 4

\* What the acquire_* function of a kind does for the only ticker of a call,
\* started on the table as the call found it.
AloneOn(call, kind) ==
    AcquireKind(kind, call.pre[TableOf(kind)], call.args.tickers[1], call.args,
                call.prov[<<call.args.tickers[1], kind>>], api_provider)

\* The Store refuses the commit of the n-th included kind, the provider
\* having answered, and no included kind before it raises.
StoreErrorAt(call, n) ==
    LET inc == IncludedInOrder(call.args)
    IN  /\ call.prov[<<call.args.tickers[1], inc[n]>>].ok
        /\ AloneOn(call, inc[n]).err
        /\ \A m \in 1..(n - 1) : ~AloneOn(call, inc[m]).err

(* C24: when, in a call of acquire_all_data for one ticker, the Store refuses
   the commit of an entity kind, the table of that kind is as it was before
   the call (nothing the failing unit of work added or modified is
   committed), the tables of the kinds acquired earlier in the attempt hold
   what those kinds committed, every other table is as it was, and the
   ticker's result is the error. *)
C24_StoreErrorRollsBackAndFailsTheTicker ==
    \A j \in 1..Len(aad) :
        LET call == aad[j]
            inc == IncludedInOrder(call.args)
        IN  Len(call.args.tickers) = 1 =>
                \A n \in 1..Len(inc) :
                    StoreErrorAt(call, n) =>
                        /\ call.results.res[call.args.tickers[1]].error
                        /\ call.results.res[call.args.tickers[1]].counts = NoCounts
                        /\ call.post[TableOf(inc[n])] = call.pre[TableOf(inc[n])]
                        /\ \A m \in 1..(n - 1) :
                              call.post[TableOf(inc[m])] = AloneOn(call, inc[m]).rows
                        /\ \A kind \in Kinds \ {inc[m] : m \in 1..n} :
                              call.post[TableOf(kind)] = call.pre[TableOf(kind)]

\* A forced call rewrote the ticker's stored prices and then had the commit of
\* its metrics refused: the prices are there, the metrics table is as before.
C24_Witness ==
    \E j \in 1..Len(aad) :
        /\ Len(aad[j].args.tickers) = 1
        /\ aad[j].args.force_refresh
        /\ aad[j].args.include_prices /\ aad[j].args.include_metrics
        /\ StoreErrorAt(aad[j], 2)
        /\ AloneOn(aad[j], "prices").ret = 1
        /\ aad[j].post.historical_prices # <<>>
        /\ aad[j].post.financial_metrics = aad[j].pre.financial_metrics
        /\ aad[j].results.res[aad[j].args.tickers[1]].error

\* The tickers of the batch the batch driver is about to process: the next
\* ten of the remaining list, or what is left of it.
NextTen ==
    SubSeq(drv.remaining, 10 * drv.at + 1,
           IF 10 * drv.at + 10 <= Len(drv.remaining) THEN 10 * drv.at + 10
           ELSE Len(drv.remaining))

(* C25: a step of the batch driver in which the batch raised appends every
   ticker of the batch to the failed list, adds their number to the failure
   count, writes nothing to the progress file, attempts none of them again
   (the attempted tickers grow by exactly the batch and the driver moves to
   the next batch position), and leaves the run in its loop when a batch
   remains and at its summary otherwise. *)
C25_RaisedBatchFailsWholeAndRunGoesOn ==
    [][(/\ drv.script = "full_history" /\ drv.pc = "loop"
        /\ drv'.at = drv.at + 1
        /\ drv'.attempt.how = "raised") =>
           /\ drv'.failed_tickers = drv.failed_tickers \o NextTen
           /\ drv'.failed_count = drv.failed_count + Len(NextTen)
           /\ drv'.successful_count = drv.successful_count
           /\ progress_file' = progress_file
           /\ drv'.attempted = drv.attempted \o NextTen
           /\ drv'.attempt.tickers = NextTen
           /\ drv'.pc = IF 10 * drv'.at < Len(drv.remaining) THEN "loop" ELSE "done"
           /\ drv'.remaining = drv.remaining]_vars

\* A first batch of ten raised and the run went on to the second batch, which
\* raised too: all eleven tickers are failed, in order, each once.
C25_Witness ==
    /\ drv.script = "full_history" /\ drv.pc = "done"
    /\ drv.at = 2
    /\ drv.attempt.how = "raised"
    /\ Len(drv.remaining) = 11
    /\ drv.failed_tickers = drv.remaining
    /\ drv.failed_count = 11

(* C26: the step in which a stop signal ends a driver run leaves every line
   of the progress file in place, leaves the Store as it was (no write of
   the attempt in flight is committed in part), and leaves no attempt
   unfinished but the one in flight: every ticker recorded as attempted has
   its outcome, and the failed list and counters are those of the attempts
   that ended. *)
C26_StopKeepsCheckpointsAndStore ==
    [][(drv.pc = "loop" /\ drv'.pc = "killed") =>
           /\ progress_file' = progress_file
           /\ db' = db
           /\ failed_file' = failed_file
           /\ drv'.attempted = drv.attempted
           /\ drv'.attempt = drv.attempt
           /\ drv'.failed_tickers = drv.failed_tickers
           /\ drv'.successful_count + drv'.failed_count = Len(drv'.attempted)]_vars

\* A run that started over a progress file with lines was stopped after an
\* attempt and before the next one, and the lines are all still there.
C26_Witness ==
    /\ drv.pc = "killed"
    /\ drv.attempted # <<>>
    /\ Len(drv.attempted) < Len(drv.remaining)
    /\ progress_file # <<>>
    /\ drv.loaded = Range(progress_file)

(* C27: a step of the subprocess driver in which the attempt of a ticker
   timed out adds one to the failure count, appends the ticker to the failed
   list, writes nothing to the progress file, and leaves the run in its loop
   at the next ticker when one remains (at its summary otherwise). *)
C27_TimeoutFailsTheTickerOnly ==
    [][(/\ drv.script = "historical" /\ drv.pc = "loop"
        /\ drv'.at = drv.at + 1
        /\ drv'.attempt.how = "timeout") =>
           /\ drv'.failed_count = drv.failed_count + 1
           /\ drv'.successful_count = drv.successful_count
           /\ drv'.failed_tickers = Append(drv.failed_tickers, drv.remaining[drv.at + 1])
           /\ progress_file' = progress_file
           /\ drv'.pc = IF drv'.at < Len(drv.remaining) THEN "loop" ELSE "done"
           /\ drv'.pc = "done" => drv'.exit = 0]_vars

\* The first ticker of a run has timed out: it is failed, not checkpointed,
\* and the run is in its loop with the second ticker to attempt.
C27_Witness ==
    /\ drv.script = "historical" /\ drv.pc = "loop"
    /\ Len(drv.attempted) = 1 /\ Len(drv.remaining) = 2
    /\ drv.attempt.how = "timeout"
    /\ drv.failed_tickers = drv.attempted
    /\ drv.failed_count = 1
    /\ drv.attempted[1] \notin Range(progress_file)

(* C28: within one run no ticker is attempted more than once, whatever the
   universe read from data/sp500.csv: the tickers the run has handed to the
   acquirer so far are pairwise different. *)
C28_NoTickerAttemptedTwiceInARun ==
    \A i, j \in 1..Len(drv.attempted) :
        drv.attempted[i] = drv.attempted[j] => i = j

(* C29: no step of any driver removes or rewrites a line of the progress
   file: after every step the file begins with the lines it had, in the same
   order, so the set of checkpointed tickers never loses a member, within a
   run, across a stop, and from one run to the next. *)
C29_ProgressFileOnlyGrows ==
    [][/\ Range(progress_file) \subseteq Range(progress_file')
       /\ \A i \in 1..Len(progress_file) :
             i <= Len(progress_file') /\ progress_file'[i] = progress_file[i]]_vars

\* A run was stopped, a second run has loaded the progress file and ended
\* after a failed attempt, and the file still holds what that run loaded.
C29_Witness ==
    /\ runs = 2 /\ drv.after_kill /\ drv.pc = "done"
    /\ drv.attempted # <<>>
    /\ drv.loaded # {}
    /\ drv.loaded = Range(progress_file)

\* The least number of batches of ten that hold n tickers.
CeilTenths(n) == CHOOSE m \in 0..n : 10 * m >= n /\ 10 * (m - 1) < n

(* C30: in a run of the batch driver over a non-empty remaining list of n
   tickers, after k batches the tickers handed over are the first 10k of the
   list (all n after the last batch), in the order of the list; the batch
   just processed is the k-th block of ten, which holds ten tickers unless
   it is the last, which holds between one and ten; the run is in its loop
   while fewer than ceil(n/10) batches are done and ends after exactly
   ceil(n/10). *)
C30_BatchesPartitionTheRemainingList ==
    (drv.script = "full_history" /\ drv.remaining # <<>>) =>
        LET n == Len(drv.remaining)
            k == drv.at
            upto(m) == IF 10 * m <= n THEN 10 * m ELSE n
        IN  /\ k <= CeilTenths(n)
            /\ drv.pc = "loop" => k < CeilTenths(n)
            /\ drv.pc = "done" => k = CeilTenths(n)
            /\ drv.attempted = SubSeq(drv.remaining, 1, upto(k))
            /\ k > 0 =>
                  /\ drv.attempt.tickers = SubSeq(drv.remaining, 10 * (k - 1) + 1, upto(k))
                  /\ Len(drv.attempt.tickers) \in 1..10
                  /\ k < CeilTenths(n) => Len(drv.attempt.tickers) = 10

\* A run over twenty remaining tickers has ended after two batches of ten.
C30_Witness ==
    /\ drv.script = "full_history" /\ drv.pc = "done"
    /\ Len(drv.remaining) = 20
    /\ drv.at = 2
    /\ Len(drv.attempt.tickers) = 10
    /\ drv.attempted = drv.remaining

\* C31: the batch driver sleeps exactly once between every two consecutive
\* batches, whatever became of the earlier one, and neither inside a batch nor
\* after the last batch: after k batches it has slept k times while a batch is
\* still to come, and k - 1 times once the last batch is done.
C31_OneDelayBetweenBatches ==
    (drv.script = "full_history" /\ drv.remaining # <<>>) =>
        /\ drv.pc \in {"loop", "killed"} => drv.sleeps = drv.at
        /\ drv.pc = "done" => /\ drv.at = CeilTenths(Len(drv.remaining))
                              /\ drv.sleeps = drv.at - 1

\* A run of three batches, the last of them failed, that ended after two delays.
C31_Witness ==
    /\ drv.script = "full_history" /\ drv.pc = "done"
    /\ drv.at = 3 /\ drv.sleeps = 2
    /\ drv.attempt.how = "raised"
    /\ Len(drv.remaining) > 20

\* C32: a full-history batch run in which every provider call and every Store
\* call succeeds ends with every remaining ticker in the progress file, an
\* empty failed list and the return value 0.
C32_RunWithoutFailureCheckpointsEveryTicker ==
    (/\ drv.script = "full_history" /\ drv.pc = "done" /\ drv.remaining # <<>>
     /\ \A t \in Range(drv.remaining) : Shape(t) # "raises") =>
        /\ Range(drv.remaining) \subseteq Range(progress_file)
        /\ drv.failed_tickers = <<>>
        /\ drv.exit = 0

\* The counters of an ended run add up to the remaining list, and no ticker
\* that the run wrote to the progress file is in its failed list.
ClassifiedOnce ==
    /\ drv.successful_count + drv.failed_count = Len(drv.remaining)
    /\ (Range(progress_file) \ drv.loaded) \cap Range(drv.failed_tickers) = {}

\* C33: a driver run over a finite list of remaining tickers terminates, and
\* at its end the success count plus the failure count is the number of
\* remaining tickers and no ticker is both checkpointed by the run and in its
\* failed list.
C33_RunEndsWithEveryTickerClassifiedOnce ==
    /\ [](drv.pc = "done" => ClassifiedOnce)
    /\ (drv.pc = "loop") ~> (drv.pc = "done" /\ drv.at > 0 /\ ClassifiedOnce)

\* A run of the subprocess driver over two tickers that ended with both failed.
C33_Witness ==
    /\ drv.script = "historical" /\ drv.pc = "done"
    /\ Len(drv.remaining) = 2 /\ drv.at = 2
    /\ drv.successful_count = 0 /\ drv.failed_count = 2
    /\ Len(drv.failed_tickers) = 2

\* C34: after a call of acquire_prices with force_refresh false has returned
\* without error, the Store holds a price row of the ticker for every date of
\* the requested range for which the provider has a bar, whatever earlier
\* calls have stored.
C34_UnforcedCallLeavesNoGap ==
    (last.op = "prices" /\ ~last.force_refresh /\ ~last.err /\ last.resp.ok) =>
        \A i \in 1..Len(last.resp.recs) :
            (last.resp.recs[i].time >= last.start_date
                /\ last.resp.recs[i].time <= last.end_date) =>
            \E j \in 1..Len(db.historical_prices) :
                /\ db.historical_prices[j].ticker = last.ticker
                /\ db.historical_prices[j].date = last.resp.recs[i].time

\* C35: every row that a call of acquire_financial_metrics,
\* acquire_company_news or acquire_insider_trades for the ticker T inserted is
\* stored with ticker = T.
C35_InsertedRowsCarryTheRequestedTicker ==
    (last.op \in {"metrics", "news", "insider_trades"} /\ ~last.err) =>
        \A i \in (Len(last.pre) + 1)..Len(db[TableOf(last.op)]) :
            db[TableOf(last.op)][i].ticker = last.ticker

\* C36: a driver run that finds every ticker of its universe in the progress
\* file makes no attempt, leaves the Store, the progress file and the
\* failed-tickers file as they are, and ends with status 0.
C36_NothingRemainingDoesNothing ==
    [][(/\ runs' = runs + 1
        /\ sp500_csv.exists
        /\ Range(drv'.tickers) \subseteq Range(progress_file)) =>
            /\ drv'.pc = "done" /\ drv'.exit = 0
            /\ drv'.attempted = <<>> /\ drv'.at = 0
            /\ db' = db
            /\ progress_file' = progress_file
            /\ failed_file' = failed_file]_vars

\* A run of the batch driver over a universe that the progress file covers
\* has ended at once, after an earlier run had left a failed-tickers file.
C36_Witness ==
    /\ drv.script = "full_history" /\ drv.pc = "done" /\ drv.exit = 0
    /\ drv.tickers # <<>>
    /\ Range(drv.tickers) \subseteq drv.loaded
    /\ drv.attempted = <<>>
    /\ progress_file # <<>>
    /\ failed_file.exists

(* src/tools/api_database.py: the reader of stored prices *)

\* datetime.strptime(s, "%Y-%m-%d").date() and date.strftime("%Y-%m-%d"): a
\* string in that format stands for the day it names.
format_date(date_obj) == <<"%Y-%m-%d", date_obj>>

parse_date(date_input) == date_input[2]

\* Price(open=p.open, ..., volume=p.volume, time=_format_date(p.date))
PriceOf(p) == [time |-> format_date(p.date), close |-> p.close, volume |-> p.volume]

\* .order_by(HistoricalPrice.date).all() over the rows picked by the filter;
\* rows of one date come in storage order.
RECURSIVE OrderByDate(_, _)
OrderByDate(rows, picked) ==
    IF picked = {} THEN <<>>
    ELSE LET i == CHOOSE i \in picked : \A j \in picked :
                      \/ rows[i].date < rows[j].date
                      \/ rows[i].date = rows[j].date /\ i <= j
         IN  <<rows[i]>> \o OrderByDate(rows, picked \ {i})

\* The rows picked by the filter, as the table holds them.
RECURSIVE StorageOrder(_, _)
StorageOrder(rows, picked) ==
    IF picked = {} THEN <<>>
    ELSE LET i == CHOOSE i \in picked : \A j \in picked : i <= j
         IN  <<rows[i]>> \o StorageOrder(rows, picked \ {i})

\* A reader without order_by.
get_prices_Unordered(rows, ticker, start_date, end_date) ==
    LET db_prices ==
            StorageOrder(rows, {i \in 1..Len(rows) :
                /\ rows[i].ticker = ticker
                /\ rows[i].date >= parse_date(start_date)
                /\ rows[i].date <= parse_date(end_date)})
    IN  [k \in 1..Len(db_prices) |-> PriceOf(db_prices[k])]

get_prices(rows, ticker, start_date, end_date) ==
    LET db_prices ==
            OrderByDate(rows, {i \in 1..Len(rows) :
                /\ rows[i].ticker = ticker
                /\ rows[i].date >= parse_date(start_date)
                /\ rows[i].date <= parse_date(end_date)})
    IN  [k \in 1..Len(db_prices) |-> PriceOf(db_prices[k])]

\* What the reader returns for the ticker and the range of the call that has
\* just ended.
ReadBack ==
    get_prices(db.historical_prices, last.ticker,
               format_date(last.start_date), format_date(last.end_date))

\* The bar of a fetched record, as the reader would return it.
BarOf(rec) == [time |-> format_date(rec.time), close |-> rec.close, volume |-> rec.volume]

\* The bars that are in the Store for a ticker: those the call fetched and
\* wrote, and those that earlier calls had stored.
BarsInStore(ticker, recs, pre) ==
    {BarOf(recs[k]) : k \in 1..Len(recs)}
        \cup {PriceOf(pre[i]) : i \in {j \in 1..Len(pre) : pre[j].ticker = ticker}}

\* C37: after a call of acquire_prices has fetched and stored bars, the
\* reader get_prices for the same ticker and range returns a bar for every
\* fetched date of the range, with the values of a fetched bar of that date,
\* returns only bars that acquire_prices stored for that ticker and whose date
\* is inside the range, and returns them one per date in ascending order.
C37_ReaderReturnsTheStoredBars ==
    (last.op = "prices" /\ last.fetched /\ ~last.err) =>
        LET R == ReadBack
            recs == last.resp.recs
            InRange(d) == d >= last.start_date /\ d <= last.end_date
            written == IF last.force_refresh THEN 1..Len(recs)
                       ELSE {k \in 1..Len(recs) :
                               First("prices", last.pre, last.ticker, recs[k]) = 0}
        IN  /\ \A k \in written :
                  InRange(recs[k].time) =>
                      \E n \in 1..Len(R) :
                          /\ parse_date(R[n].time) = recs[k].time
                          /\ \E m \in written : R[n] = BarOf(recs[m])
            /\ \A n \in 1..Len(R) :
                  /\ InRange(parse_date(R[n].time))
                  /\ R[n] \in BarsInStore(last.ticker, recs, last.pre)
            /\ \A n \in 1..(Len(R) - 1) :
                  parse_date(R[n].time) < parse_date(R[n + 1].time)
            /\ get_prices(db.historical_prices, Other(last.ticker),
                          format_date(last.start_date), format_date(last.end_date))
                  = get_prices(last.pre, Other(last.ticker),
                               format_date(last.start_date), format_date(last.end_date))

\* A call stored two bars that the provider sent latest first, beside a bar
\* of the other ticker, and the reader returns the two in date order.
C37_Witness ==
    /\ last.op = "prices" /\ last.fetched /\ ~last.err
    /\ Len(last.resp.recs) = 2
    /\ last.resp.recs[1].time > last.resp.recs[2].time
    /\ Len(ReadBack) = 2
    /\ ReadBack[1] = BarOf(last.resp.recs[2])
    /\ \E i \in 1..Len(db.historical_prices) :
          db.historical_prices[i].ticker # last.ticker

\* C38: after a call of an acquire_* function, every row the call inserted
\* and every row it updated carries the provider configured during the call as
\* its data_source, and every other row, a row skipped under force_refresh
\* false among them, is as it was, with the data_source of its last write.
C38_WrittenRowsCarryTheConfiguredProvider ==
    (last.op # "none") =>
        LET kind == last.op
            rows == db[TableOf(last.op)]
            written == IF last.err THEN {}
                       ELSE UpdatedRows \cup ((Len(last.pre) + 1)..Len(rows))
        IN  /\ Len(rows) >= Len(last.pre)
            /\ \A i \in 1..Len(rows) :
                  IF i \in written
                  THEN rows[i].data_source = api_provider
                  ELSE i <= Len(last.pre) /\ rows[i] = last.pre[i]

\* A call without force_refresh under a new configuration inserted a row
\* beside a row it skipped, which still carries the provider of its own write.
C38_Witness ==
    /\ last.op # "none" /\ ~last.force_refresh /\ last.fetched /\ ~last.err
    /\ Len(db[TableOf(last.op)]) > Len(last.pre)
    /\ \E i \in 1..Len(last.pre) :
          /\ FoundAt(last.op, last.pre, last.ticker, last.resp.recs, i) # {}
          /\ db[TableOf(last.op)][i].data_source # api_provider

\* The run with the id of the call that has just ended, before the call.
RunBefore == last.pre.backtest_runs[FindRun(last.pre, last.id)]

NotFound ==
    \A i \in 1..Len(last.pre.backtest_runs) : last.pre.backtest_runs[i].id # last.id

\* C39: on a run id that does not exist, update_backtest_run_status raises
\* ValueError, delete_backtest_run returns False and get_backtest_run returns
\* None, and the store is as it was; on an existing id
\* update_backtest_run_status writes the new status, each result field that was
\* passed as a value and no other field of that run or of any other row, and
\* sets completed_at when and only when the new status is COMPLETE.
C39_BacktestRunNotFoundAndUpdate ==
    /\ (last.op \in {"update_backtest_run_status", "delete_backtest_run",
                     "get_backtest_run"} /\ NotFound) =>
          /\ db = last.pre
          /\ last.op = "update_backtest_run_status" =>
                last.ret = [raised |-> "ValueError", value |-> <<>>]
          /\ last.op = "delete_backtest_run" =>
                last.ret = [raised |-> "", value |-> <<FALSE>>]
          /\ last.op = "get_backtest_run" =>
                last.ret = [raised |-> "", value |-> <<>>]
    /\ (last.op = "update_backtest_run_status" /\ ~NotFound) =>
          LET i == FindRun(last.pre, last.id)
              new == db.backtest_runs[i]
          IN  /\ last.ret.raised = ""
              /\ db.backtest_daily_results = last.pre.backtest_daily_results
              /\ db.backtest_runs_id_seq = last.pre.backtest_runs_id_seq
              /\ Len(db.backtest_runs) = Len(last.pre.backtest_runs)
              /\ \A j \in 1..Len(db.backtest_runs) :
                    j # i => db.backtest_runs[j] = last.pre.backtest_runs[j]
              /\ new.id = RunBefore.id /\ new.name = RunBefore.name
              /\ new.started_at = RunBefore.started_at
              /\ new.status = last.args.status
              /\ new.completed_at =
                    IF last.args.status = "COMPLETE" THEN <<last.now>>
                    ELSE RunBefore.completed_at
              /\ \A f \in ResultFields :
                    new[f] = IF last.args[f] = <<>> THEN RunBefore[f] ELSE last.args[f]

\* An update of a completed run to ERROR passed the value 0 for the portfolio
\* value and no drawdown date: the value is written and completed_at stays.
C39_Witness ==
    /\ last.op = "update_backtest_run_status" /\ ~NotFound
    /\ last.args.status = "ERROR"
    /\ last.args.final_portfolio_value = <<0>>
    /\ last.args.max_drawdown_date = <<>>
    /\ RunBefore.final_portfolio_value = <<100>>
    /\ RunBefore.completed_at # <<>>
    /\ db.backtest_runs[FindRun(last.pre, last.id)].completed_at = RunBefore.completed_at
    /\ db.backtest_runs[FindRun(last.pre, last.id)].final_portfolio_value = <<0>>
====
